---- MODULE Spec2Model ----
(***************************************************************************)
(* Verification model of the Google-Research-MCP contextual navigation    *)
(* core: ContentExtractor (content cache), EnhancedContentExtractor,      *)
(* BrowsingSessionService (session store) and NavigationService            *)
(* (followLinks / followLinksRecursive).                                   *)
(*                                                                         *)
(* Strings are tuples of one-character strings so that String.includes,   *)
(* toLowerCase and startsWith are computed, not assumed.  Times are        *)
(* milliseconds as returned by Date.now().  Link scores are kept in        *)
(* thousandths (0.3 is 300); the constants of the scoring rule are         *)
(* multiples of 0.05, so the decimal arithmetic of the rule is exact in    *)
(* this scale (binary floating point rounding is not modelled).            *)
(***************************************************************************)
EXTENDS Integers, Sequences, FiniteSets, TLC

(***************************************************************************)
(* Bounds of the model                                                     *)
(***************************************************************************)
\* latest clock value the model lets Date.now() reach
MaxNow == 1800001

\* number of extractContent / extractEnhancedContent calls in one cache run
MaxOps == 2

\* largest depth a followLinks call is given
MaxDepth == 3

\* largest maxLinksToFollow a followLinks call is given
MaxLinks == 3

\* number of sessions created through createSession before the call
MaxSessions == 1

(***************************************************************************)
(* Strings                                                                 *)
(***************************************************************************)
Uppers == <<"A","B","C","D","E","F","G","H","I","J","K","L","M",
            "N","O","P","Q","R","S","T","U","V","W","X","Y","Z">>

Lowers == <<"a","b","c","d","e","f","g","h","i","j","k","l","m",
            "n","o","p","q","r","s","t","u","v","w","x","y","z">>

\* String.prototype.toLowerCase, one character
LowerChar(c) ==
  IF \E i \in 1..Len(Uppers) : Uppers[i] = c
  THEN Lowers[CHOOSE i \in 1..Len(Uppers) : Uppers[i] = c]
  ELSE c

\* String.prototype.toLowerCase
ToLower(s) == [i \in 1..Len(s) |-> LowerChar(s[i])]

\* String.prototype.includes
Includes(s, t) ==
  \E i \in 0..(Len(s) - Len(t)) : \A j \in 1..Len(t) : s[i + j] = t[j]

\* String.prototype.startsWith
StartsWith(s, t) ==
  Len(t) <= Len(s) /\ \A j \in 1..Len(t) : s[j] = t[j]

\* a string of n copies of the character c
Rep(c, n) == [i \in 1..n |-> c]

(***************************************************************************)
(* URLs.  A parsed URL is a record (scheme, host, path); Href is its       *)
(* string form.  A string that `new URL` rejects has the empty scheme.     *)
(***************************************************************************)
SchemeChars(s) ==
  CASE s = "https" -> <<"h","t","t","p","s",":","/","/">>
    [] s = "http" -> <<"h","t","t","p",":","/","/">>
    [] s = "mailto" -> <<"m","a","i","l","t","o",":">>
    [] OTHER -> <<>>

Href(u) == SchemeChars(u.scheme) \o u.host \o u.path

\* new URL(u).hostname
Hostname(u) == u.host

\* ContentExtractor.isValidUrl: new URL(url) does not throw
isValidUrl(u) == u.scheme # ""

HostEx == <<"e","x",".","o","r","g">>

HostMyEx == <<"m","y","e","x",".","o","r","g">>

HostOther == <<"o","t","h","e","r",".","n","e","t">>

MkUrl(scheme, host, path) == [scheme |-> scheme, host |-> host, path |-> path]

\* the string "not a url": new URL throws on it
BadUrl == MkUrl("", <<>>, <<"n","o","t","a","u","r","l">>)

NoUrl == MkUrl("", <<>>, <<>>)

(***************************************************************************)
(* Content cache (ContentExtractor.contentCache).  The Map is a sequence   *)
(* of entries in insertion order: Map.set on a present key keeps the       *)
(* key's position, Map.set on an absent key appends.                       *)
(***************************************************************************)
\* ContentExtractor.cacheTTL, milliseconds
cacheTTL == 30 * 60 * 1000

\* the literal of `this.contentCache.size > 50`
MaxCacheEntries == 50

\* ContentExtractor.generateCacheKey: `${url}|${format}`
generateCacheKey(url, format) == [url |-> url, format |-> format]

NoKey == generateCacheKey(NoUrl, "")

\* the WebpageContent a successful fetch at time t produces; length is
\* contentStr.length (stats.approximate_chars)
MkDoc(url, format, t, length) ==
  [url |-> url, format |-> format, fetchedAt |-> t, length |-> length]

NoDoc == MkDoc(NoUrl, "", -1, 0)

\* index of key k in the Map, 0 when absent
CacheIndex(cache, k) ==
  IF \E i \in 1..Len(cache) : cache[i].key = k
  THEN CHOOSE i \in 1..Len(cache) : cache[i].key = k
  ELSE 0

\* isCacheValid with the comparison turned round
isCacheValid_Inverted(entry, t) == t - entry.timestamp > cacheTTL

\* ContentExtractor.isCacheValid
isCacheValid(entry, t) == t - entry.timestamp < cacheTTL

\* Map.prototype.set
MapSet(cache, k, entry) ==
  IF CacheIndex(cache, k) = 0
  THEN Append(cache, entry)
  ELSE [cache EXCEPT ![CacheIndex(cache, k)] = entry]

\* Map.prototype.delete by position
RemoveAt(s, i) == [j \in 1..(Len(s) - 1) |-> IF j < i THEN s[j] ELSE s[j + 1]]

\* the first key of the Map, whatever its timestamp
OldestIndex_First(cache) == 1

\* first element of entries.sort((a, b) => a[1].timestamp - b[1].timestamp):
\* the sort is stable, so among equal timestamps the earliest in Map order
OldestIndex(cache) ==
  CHOOSE i \in 1..Len(cache) :
    \A j \in 1..Len(cache) :
      \/ cache[i].timestamp < cache[j].timestamp
      \/ (cache[i].timestamp = cache[j].timestamp /\ i <= j)

\* ContentExtractor.cacheContent
cacheContent(cache, url, format, content, t) ==
  LET afterSet == MapSet(cache, generateCacheKey(url, format),
                         [key |-> generateCacheKey(url, format),
                          timestamp |-> t, content |-> content])
  IN IF Len(afterSet) > MaxCacheEntries
     THEN RemoveAt(afterSet, OldestIndex(afterSet))
     ELSE afterSet

(***************************************************************************)
(* Extraction.  response is what the axios request of the call meets:      *)
(* whether it succeeds (ok) and, for the page it returns, the length of    *)
(* article.content as Readability parses it (0 when reader.parse() gives   *)
(* null), the length of the string the format conversion makes of that     *)
(* article, and the length of the string fallbackContentExtraction         *)
(* returns for the page.  enhOk tells whether the second request (fetch    *)
(* in enhanceContent) succeeds.  The result record carries what the call   *)
(* returned, the number of network requests it issued, how the request     *)
(* ended (fetched) and the cache the call leaves.                          *)
(***************************************************************************)
\* axios.get throws: timeout, maxContentLength exceeded or network error
NetworkError == [ok |-> FALSE, article |-> 0, converted |-> 0, fallback |-> 0]

\* a page Readability parses into an article of more than 100 characters
ReadablePage == [ok |-> TRUE, article |-> 101, converted |-> 60, fallback |-> 0]

\* a page whose article is rejected as too short, with a main element the
\* fallback extraction turns into text
FallbackPage == [ok |-> TRUE, article |-> 100, converted |-> 60, fallback |-> 60]

\* a page with an empty body: reader.parse() gives null and the fallback
\* extraction returns ''
EmptyPage == [ok |-> TRUE, article |-> 0, converted |-> 0, fallback |-> 0]

\* extractContent, lines 805-825: the length of contentStr
contentStr(response) ==
  IF response.article > 100 THEN response.converted ELSE response.fallback

\* extractContent with a failed fetch refreshing the entry it found expired
extractContent_RefreshOnFailure(cache, url, format, t, response) ==
  LET k == generateCacheKey(url, format)
      idx == CacheIndex(cache, k)
      content == MkDoc(url, format, t, contentStr(response))
  IN IF ~isValidUrl(url)
     THEN [ok |-> FALSE, hit |-> FALSE, requests |-> 0, fetched |-> "none",
           doc |-> NoDoc, ts |-> -1, cache |-> cache]
     ELSE IF idx # 0 /\ isCacheValid(cache[idx], t)
     THEN [ok |-> TRUE, hit |-> TRUE, requests |-> 0, fetched |-> "none",
           doc |-> cache[idx].content, ts |-> cache[idx].timestamp,
           cache |-> cache]
     ELSE IF response.ok
     THEN [ok |-> TRUE, hit |-> FALSE, requests |-> 1, fetched |-> "ok",
           doc |-> content, ts |-> t,
           cache |-> cacheContent(cache, url, format, content, t)]
     ELSE [ok |-> FALSE, hit |-> FALSE, requests |-> 1, fetched |-> "error",
           doc |-> NoDoc, ts |-> -1,
           cache |-> IF idx # 0 THEN [cache EXCEPT ![idx].timestamp = t]
                     ELSE cache]

\* ContentExtractor.extractContent
extractContent(cache, url, format, t, response) ==
  LET k == generateCacheKey(url, format)
      idx == CacheIndex(cache, k)
      content == MkDoc(url, format, t, contentStr(response))
  IN IF ~isValidUrl(url)
     THEN [ok |-> FALSE, hit |-> FALSE, requests |-> 0, fetched |-> "none",
           doc |-> NoDoc, ts |-> -1, cache |-> cache]
     ELSE IF idx # 0 /\ isCacheValid(cache[idx], t)
     THEN [ok |-> TRUE, hit |-> TRUE, requests |-> 0, fetched |-> "none",
           doc |-> cache[idx].content, ts |-> cache[idx].timestamp,
           cache |-> cache]
     ELSE IF response.ok
     THEN [ok |-> TRUE, hit |-> FALSE, requests |-> 1, fetched |-> "ok",
           doc |-> content, ts |-> t,
           cache |-> cacheContent(cache, url, format, content, t)]
     ELSE [ok |-> FALSE, hit |-> FALSE, requests |-> 1, fetched |-> "error",
           doc |-> NoDoc, ts |-> -1, cache |-> cache]

\* EnhancedContentExtractor.enhanceContent: the second request of an
\* enhanced extraction (`fetch(url)`), issued whenever the base content
\* was obtained; enhanced is FALSE when the catch branch returned the
\* base content with empty links
enhanceContent(base, enhOk) ==
  base @@ [enhRequests |-> 1, enhanced |-> enhOk]

\* EnhancedContentExtractor.extractEnhancedContent
extractEnhancedContent(cache, url, format, t, response, enhOk) ==
  LET base == extractContent(cache, url, format, t, response)
  IN IF base.ok THEN enhanceContent(base, enhOk)
     ELSE base @@ [enhRequests |-> 0, enhanced |-> FALSE]

(***************************************************************************)
(* The web the model browses: the pages the network serves and, per page,  *)
(* the title, description and text extractContent returns and the links    *)
(* extractLinks returns (absolute URL, anchor text, surrounding context).  *)
(***************************************************************************)
UrlA == MkUrl("https", HostEx, <<"/","a">>)

UrlEnergy == MkUrl("https", HostEx, <<"/","e","n","e","r","g","y">>)

UrlB == MkUrl("https", HostEx, <<"/","b">>)

UrlC == MkUrl("https", HostMyEx, <<"/","c">>)

UrlD == MkUrl("https", HostOther, <<"/","d">>)

UrlE == MkUrl("https", HostEx, <<"/","e">>)

UrlF == MkUrl("https", HostEx, <<"/","f">>)

UrlGone == MkUrl("https", HostEx, <<"/","g","o","n","e">>)

UrlMail == MkUrl("mailto", <<>>, <<"i","n","f","o","@","e","x",".","o","r",
    "g">>)

KwEnergy == <<"e","n","e","r","g","y">>

KwEnergyCap == <<"E","n","e","r","g","y">>

KwSolar == <<"s","o","l","a","r">>

\* the pages that answer a request; every other URL fails to load
AlivePages == {UrlA, UrlEnergy, UrlB, UrlC, UrlD, UrlE, UrlF}

NoPage == [title |-> <<>>, description |-> <<>>, content |-> <<>>,
           links |-> <<>>]

\* what a successful extraction of url u yields
PageOf(u) ==
  CASE u = UrlA ->
       [title |-> <<"E","n","e","r","g","y"," ","p","o","r","t","a","l">>,
        description |-> <<>>,
        content |-> <<"e","n","e","r","g","y"," ","n","e","w","s","."," ","e",
          "n","e","r","g","y"," ","d","a","t","a">>,
        links |-> <<
          [url |-> UrlEnergy,
           text |-> <<"S","o","l","a","r"," ","e","n","e","r","g","y"," ","e",
             "x","p","l","a","i","n","e","d"," ","i","n"," ","d","e","p","t",
             "h">>,
           context |-> <<"R","e","a","d"," ","a","b","o","u","t"," ","s","o",
             "l","a","r"," ","e","n","e","r","g","y">>],
          [url |-> UrlB,
           text |-> <<"E","n","e","r","g","y">>,
           context |-> <<>>],
          [url |-> UrlC,
           text |-> <<"g","r","i","d">>,
           context |-> <<"t","h","e"," ","e","n","e","r","g","y"," ","g","r",
             "i","d">>],
          [url |-> UrlD,
           text |-> <<"A","b","o","u","t"," ","u","s">>,
           context |-> <<>>],
          [url |-> UrlA,
           text |-> <<"H","o","m","e"," ","p","a","g","e">>,
           context |-> <<"e","n","e","r","g","y"," ","h","o","m","e">>],
          [url |-> UrlGone,
           text |-> <<"E","n","e","r","g","y"," ","p","r","i","c","e","s">>,
           context |-> <<>>],
          [url |-> UrlMail,
           text |-> <<"M","a","i","l"," ","t","h","e"," ","e","n","e","r","g",
             "y"," ","d","e","s","k">>,
           context |-> <<>>]
        >>]
    [] u = UrlEnergy ->
       [title |-> <<"S","o","l","a","r"," ","e","n","e","r","g","y">>,
        description |-> <<"A","l","l"," ","a","b","o","u","t"," ","e","n","e",
          "r","g","y">>,
        content |-> <<"e","n","e","r","g","y",","," ","e","n","e","r","g","y",
          ";"," ","e","n","e","r","g","y","!"," ","s","o","l","a","r"," ","e",
          "n","e","r","g","y">>,
        links |-> <<
          [url |-> UrlB,
           text |-> <<"e","n","e","r","g","y"," ","b","a","s","i","c","s">>,
           context |-> <<>>],
          [url |-> UrlA,
           text |-> <<"H","o","m","e"," ","p","a","g","e">>,
           context |-> <<"e","n","e","r","g","y"," ","h","o","m","e">>],
          [url |-> UrlE,
           text |-> <<"s","o","l","a","r"," ","e","n","e","r","g","y"," ","s",
             "t","o","r","a","g","e">>,
           context |-> <<>>],
          [url |-> UrlF,
           text |-> <<"e","n","e","r","g","y"," ","f","a","c","t","s">>,
           context |-> <<>>]
        >>]
    [] u = UrlB ->
       [title |-> <<"B","a","s","i","c","s">>,
        description |-> <<>>,
        content |-> <<"t","h","e"," ","b","a","s","i","c","s"," ","o","f"," ",
          "s","y","n","e","r","g","y">>,
        links |-> <<
          [url |-> UrlEnergy,
           text |-> <<"w","i","n","d"," ","e","n","e","r","g","y">>,
           context |-> <<>>],
          [url |-> UrlE,
           text |-> <<"s","o","l","a","r"," ","e","n","e","r","g","y"," ","s",
             "t","o","r","a","g","e">>,
           context |-> <<>>],
          [url |-> UrlF,
           text |-> <<"e","n","e","r","g","y"," ","f","a","c","t","s">>,
           context |-> <<>>],
          [url |-> UrlC,
           text |-> <<"m","o","r","e">>,
           context |-> <<"m","o","r","e"," ","o","n"," ","s","o","l","a","r",
             " ","e","n","e","r","g","y">>],
          [url |-> UrlA,
           text |-> <<"H","o","m","e"," ","p","a","g","e">>,
           context |-> <<"e","n","e","r","g","y"," ","h","o","m","e">>]
        >>]
    [] u = UrlC ->
       [title |-> <<"G","r","i","d">>,
        description |-> <<>>,
        content |-> <<"p","l","a","i","n"," ","t","e","x","t">>,
        links |-> <<
          [url |-> UrlE,
           text |-> <<"s","o","l","a","r"," ","e","n","e","r","g","y"," ","s",
             "t","o","r","a","g","e">>,
           context |-> <<>>]
        >>]
    [] u = UrlD ->
       [title |-> <<"A","b","o","u","t">>,
        description |-> <<>>,
        content |-> <<"p","l","a","i","n"," ","t","e","x","t">>,
        links |-> <<>>]
    [] u = UrlE ->
       [title |-> <<"S","t","o","r","a","g","e"," ","o","f"," ","e","n","e",
          "r","g","y">>,
        description |-> <<>>,
        content |-> <<"s","o","l","a","r"," ","c","e","l","l","s"," ","s","t",
          "o","r","e"," ","e","n","e","r","g","y">>,
        links |-> <<
          [url |-> UrlF,
           text |-> <<"e","n","e","r","g","y"," ","f","a","c","t","s">>,
           context |-> <<>>],
          [url |-> UrlEnergy,
           text |-> <<"w","i","n","d"," ","e","n","e","r","g","y">>,
           context |-> <<>>]
        >>]
    [] u = UrlF ->
       [title |-> <<"F","a","c","t","s">>,
        description |-> <<>>,
        content |-> <<"p","l","a","i","n"," ","t","e","x","t">>,
        links |-> <<>>]
    [] OTHER -> NoPage

(***************************************************************************)
(* NavigationService: scoring, filtering and ranking of links              *)
(***************************************************************************)
Min(a, b) == IF a < b THEN a ELSE b

Max(a, b) == IF a > b THEN a ELSE b

\* the characters the regular expression class \w matches
WordChars ==
  {Lowers[i] : i \in 1..Len(Lowers)} \cup {Uppers[i] : i \in 1..Len(Uppers)}
  \cup {"0","1","2","3","4","5","6","7","8","9","_"}

\* \b between position p and p + 1 of text (positions outside the text
\* count as non-word characters)
WordBoundary(text, p) ==
  (p >= 1 /\ p <= Len(text) /\ text[p] \in WordChars)
  # (p + 1 >= 1 /\ p + 1 <= Len(text) /\ text[p + 1] \in WordChars)

\* textToAnalyze.match(new RegExp(`\\b${k}\\b`, 'gi')): number of matches
\* (text and k are already in lower case)
WordMatches(text, k) ==
  Cardinality({i \in 0..(Len(text) - Len(k)) :
                 /\ \A j \in 1..Len(k) : text[i + j] = k[j]
                 /\ WordBoundary(text, i)
                 /\ WordBoundary(text, i + Len(k))})

\* the contribution of one keyword in calculateRelevanceScore
PageKeywordScore(page, kw) ==
  LET k == ToLower(kw)
      textToAnalyze ==
        ToLower(page.title \o <<" ">> \o page.description \o <<" ">>
                \o page.content)
      matches == WordMatches(textToAnalyze, k)
  IN IF matches = 0 THEN 0
     ELSE Min(matches * 100, 300)
          + (IF Includes(ToLower(page.title), k) THEN 200 ELSE 0)
          + (IF page.description # <<>>
                /\ Includes(ToLower(page.description), k) THEN 100 ELSE 0)

RECURSIVE SumPageScores(_, _)
SumPageScores(page, kws) ==
  IF kws = <<>> THEN 0
  ELSE PageKeywordScore(page, Head(kws)) + SumPageScores(page, Tail(kws))

\* NavigationService.calculateRelevanceScore, in thousandths
calculateRelevanceScore(page, keywords) ==
  IF Len(keywords) = 0 THEN 700
  ELSE Min(SumPageScores(page, keywords) \div Len(keywords), 1000)

\* the contribution of one keyword in calculateLinkRelevance
LinkKeywordScore(link, kw) ==
  LET k == ToLower(kw)
      linkText == ToLower(link.text \o <<" ">> \o link.context)
  IN (IF Includes(linkText, k) THEN 300 ELSE 0)
     + (IF Includes(ToLower(Href(link.url)), k) THEN 200 ELSE 0)
     + (IF link.context # <<>> /\ Includes(ToLower(link.context), k)
        THEN 200 ELSE 0)

RECURSIVE SumLinkScores(_, _)
SumLinkScores(link, kws) ==
  IF kws = <<>> THEN 0
  ELSE LinkKeywordScore(link, Head(kws)) + SumLinkScores(link, Tail(kws))

\* calculateLinkRelevance returning the sum over the keywords
calculateLinkRelevance_Sum(link, keywords, parentUrl) ==
  IF Len(keywords) = 0 THEN 600
  ELSE LET matched == SumLinkScores(link, keywords)
           internal ==
             IF /\ isValidUrl(link.url)
                /\ isValidUrl(parentUrl)
                /\ Hostname(link.url) = Hostname(parentUrl)
             THEN matched + 100 ELSE matched
           short == IF Len(link.text) < 5 THEN internal \div 2 ELSE internal
           long == IF Len(link.text) > 20 THEN short + 100 ELSE short
       IN long

\* NavigationService.calculateLinkRelevance, in thousandths
calculateLinkRelevance(link, keywords, parentUrl) ==
  IF Len(keywords) = 0 THEN 600
  ELSE LET matched == SumLinkScores(link, keywords)
           internal ==
             IF /\ isValidUrl(link.url)
                /\ isValidUrl(parentUrl)
                /\ Hostname(link.url) = Hostname(parentUrl)
             THEN matched + 100 ELSE matched
           short == IF Len(link.text) < 5 THEN internal \div 2 ELSE internal
           long == IF Len(link.text) > 20 THEN short + 100 ELSE short
       IN Min(long \div Len(keywords), 1000)

\* new URL(link.url, base).href for a link that does not start with http
Resolve(u, base) ==
  IF u.scheme # "" THEN u
  ELSE MkUrl(base.scheme, base.host, <<"/">> \o u.path)

\* the absolute URL followLinks computes for a link of the start page
AbsoluteUrl(u, base) ==
  IF StartsWith(Href(u), <<"h","t","t","p">>) THEN u
  ELSE IF isValidUrl(base) THEN Resolve(u, base) ELSE u

\* relevanceThreshold of the options followLinks builds, in thousandths
relevanceThreshold == 100

\* includeDomains of the options followLinks builds
IncludeDomains(url, stayOnDomain) ==
  IF stayOnDomain THEN <<Hostname(url)>> ELSE <<>>

\* the domain filter of followLinks and followLinksRecursive
PassesDomain(link, includeDomains) ==
  \/ Len(includeDomains) = 0
  \/ /\ isValidUrl(link.url)
     /\ \E d \in 1..Len(includeDomains) :
          Includes(Hostname(link.url), includeDomains[d])

\* the keyword filter of followLinks and followLinksRecursive
PassesKeywords(link, keywords) ==
  \/ Len(keywords) = 0
  \/ \E i \in 1..Len(keywords) :
       Includes(ToLower(link.text \o <<" ">> \o link.context),
                ToLower(keywords[i]))

\* the sort with the comparator turned round (a - b): ascending, stable
SortByRelevance_Ascending(s) ==
  LET Rank(i) ==
        1 + Cardinality({j \in 1..Len(s) :
                           \/ s[j].relevanceScore < s[i].relevanceScore
                           \/ /\ s[j].relevanceScore = s[i].relevanceScore
                              /\ j < i})
  IN [k \in 1..Len(s) |-> s[CHOOSE i \in 1..Len(s) : Rank(i) = k]]

\* Array.prototype.sort((a, b) => b.relevanceScore - a.relevanceScore):
\* descending and stable
SortByRelevance(s) ==
  LET Rank(i) ==
        1 + Cardinality({j \in 1..Len(s) :
                           \/ s[j].relevanceScore > s[i].relevanceScore
                           \/ /\ s[j].relevanceScore = s[i].relevanceScore
                              /\ j < i})
  IN [k \in 1..Len(s) |-> s[CHOOSE i \in 1..Len(s) : Rank(i) = k]]

\* Array.prototype.slice(0, n) for n >= 0
Take(s, n) == SubSeq(s, 1, Min(n, Len(s)))

\* followLinks, lines 1670-1727: the links of the start page to follow
SelectStartLinks(links, url, keywords, maxLinksToFollow, stayOnDomain) ==
  LET scoredLinks ==
        [i \in 1..Len(links) |->
           [url |-> AbsoluteUrl(links[i].url, url),
            text |-> links[i].text,
            context |-> links[i].context,
            relevanceScore |->
              calculateLinkRelevance(
                [links[i] EXCEPT !.url = AbsoluteUrl(links[i].url, url)],
                keywords, url)]]
      byRelevance ==
        SelectSeq(scoredLinks,
                  LAMBDA l : l.relevanceScore >= relevanceThreshold)
      byDomain ==
        SelectSeq(byRelevance,
                  LAMBDA l : PassesDomain(l, IncludeDomains(url, stayOnDomain)))
      byKeyword ==
        SelectSeq(byDomain, LAMBDA l : PassesKeywords(l, keywords))
  IN Take(SortByRelevance(byKeyword), maxLinksToFollow)

\* the cap without the depth: three links of every page
LevelCap_Flat(remainingDepth) == Min(3, Max(1, 3))

\* the number of links followLinksRecursive keeps of a page visited with
\* the given remaining depth: Math.min(3, Math.max(1, 4 - remainingDepth))
LevelCap(remainingDepth) == Min(3, Max(1, 4 - remainingDepth))

\* followLinksRecursive, lines 1794-1834: the links of a visited page to
\* follow next
SelectPageLinks(links, pageUrl, keywords, includeDomains, remainingDepth) ==
  LET scoredLinks ==
        [i \in 1..Len(links) |->
           [url |-> links[i].url,
            text |-> links[i].text,
            context |-> links[i].context,
            relevanceScore |->
              calculateLinkRelevance(links[i], keywords, pageUrl)]]
      byDomain ==
        SelectSeq(scoredLinks, LAMBDA l : PassesDomain(l, includeDomains))
      byKeyword ==
        SelectSeq(byDomain, LAMBDA l : PassesKeywords(l, keywords))
      byRelevance ==
        SelectSeq(byKeyword,
                  LAMBDA l : l.relevanceScore >= relevanceThreshold)
  IN Take(SortByRelevance(byRelevance), LevelCap(remainingDepth))

(***************************************************************************)
(* State                                                                   *)
(***************************************************************************)
VARIABLES
  now,            \* Date.now()
  contentCache,   \* ContentExtractor.contentCache
  lastCall,       \* the latest extraction call and what it did
  prevCall,       \* the call right before it when that was for the same
                  \* cache key, NoCall otherwise
  lastEvicted,    \* cache keys the latest extraction call removed
  ops,            \* extraction calls made so far by the cache run
  sessions,       \* BrowsingSessionService.sessions
  nextSessionId,  \* the next identifier uuidv4() returns
  pc,             \* where the followLinks call stands
  call,           \* sessionId and params of the followLinks call
  createdSession, \* id of the session followLinks created, 0 if none
  startLinks,     \* startContent.links
  stack,          \* the active followLinksRecursive calls, innermost last
  visitedUrls,    \* the Set visitedUrls of the call
  result,         \* the FollowLinksResult under construction
  outcome,        \* "none", "returned" (a result) or "failed" (an error)
  extractLog,     \* the extraction requests of the call, in order
  capLog,         \* the caps followLinksRecursive applied, per depth
  lastFailed,     \* the link whose extraction failed in the latest step
  outage,         \* the one request of the run the network fails
  activeSessions, \* NavigationHandlers.activeSessions: id -> lastActivity
  handled,        \* the latest contextual_navigation request and its reply
  storeOp,        \* the latest call a client or timer made on the store
                  \* since the last request or wait
  scored,         \* a link, keywords and source page, and the link's score
  limiterConfig,  \* RateLimiter.windowMs and RateLimiter.maxRequests
  requestCounts,  \* RateLimiter.requestCounts: identifier -> entry
  windowTally,    \* per identifier: when its window began, answers allowed
  lastCheck,      \* the latest checkLimit call and its answer
  calls           \* extractContent and visitUrl calls begun, in order

cacheVars == <<now, contentCache, lastCall, prevCall, lastEvicted, ops>>

navVars ==
  <<sessions, nextSessionId, pc, call, createdSession, startLinks, stack,
    visitedUrls, result, outcome, extractLog, capLog, lastFailed, outage>>

auxVars == <<activeSessions, handled, storeOp, scored>>

extraVars == <<limiterConfig, requestCounts, windowTally, lastCheck, calls>>

vars == <<cacheVars, navVars, auxVars, extraVars>>

NoCall ==
  [kind |-> "none", key |-> NoKey, at |-> -1, ok |-> FALSE, hit |-> FALSE,
   requests |-> 0, fetched |-> "none", enhRequests |-> 0, doc |-> NoDoc,
   ts |-> -1, enhanced |-> FALSE]

\* the record of a call of the given kind, from the result r of the call:
\* requests counts the axios requests of extractContent, enhRequests the
\* fetch requests of enhanceContent
CallRecord(kind, url, format, t, r) ==
  [kind |-> kind, key |-> generateCacheKey(url, format), at |-> t,
   ok |-> r.ok, hit |-> r.hit, requests |-> r.requests,
   fetched |-> r.fetched, enhRequests |-> r.enhRequests, doc |-> r.doc, ts |-> r.ts,
   enhanced |-> r.enhanced]

CacheKeys(cache) == {cache[i].key : i \in 1..Len(cache)}

\* keys present before the call (or put by it) that are gone after it
EvictedBy(before, k, after) ==
  (CacheKeys(before) \cup {k}) \ CacheKeys(after)

(***************************************************************************)
(* Session store (BrowsingSessionService)                                  *)
(***************************************************************************)
\* BrowsingSessionService.SESSION_TIMEOUT, milliseconds
SESSION_TIMEOUT == 30 * 60 * 1000

\* a session id no createSession call returned
NoSession == 0

\* the session createSession stores
NewSession(t) ==
  [startTime |-> t, lastActivityTime |-> t, history |-> <<>>,
   bookmarks |-> <<>>, currentUrl |-> NoUrl]

\* BrowsingSessionService.createSession: the store after the call
createSession(sess, id, t) ==
  [i \in DOMAIN sess \cup {id} |-> IF i = id THEN NewSession(t) ELSE sess[i]]

\* getSession refreshing every session of the store
getSession_TouchAll(sess, id, t) ==
  IF id \in DOMAIN sess
  THEN [i \in DOMAIN sess |-> [sess[i] EXCEPT !.lastActivityTime = t]]
  ELSE sess

\* getSession dropping a session that is idle for longer than the timeout
getSession_ExpireAtRead(sess, id, t) ==
  IF id \in DOMAIN sess
  THEN IF t - sess[id].lastActivityTime > SESSION_TIMEOUT
       THEN [i \in DOMAIN sess \ {id} |-> sess[i]]
       ELSE [sess EXCEPT ![id].lastActivityTime = t]
  ELSE sess

\* BrowsingSessionService.getSession: the store after the call
getSession(sess, id, t) ==
  IF id \in DOMAIN sess
  THEN [sess EXCEPT ![id].lastActivityTime = t]
  ELSE sess

\* visitUrl that records the page and leaves currentUrl as it was
visitUrl_KeepCurrent(sess, id, url, parentUrl, t, r) ==
  IF id \notin DOMAIN sess
  THEN [ok |-> FALSE, extracted |-> FALSE, sessions |-> sess]
  ELSE IF ~r.ok
  THEN [ok |-> FALSE, extracted |-> TRUE, sessions |-> getSession(sess, id, t)]
  ELSE [ok |-> TRUE, extracted |-> TRUE,
        sessions |->
          [getSession(sess, id, t) EXCEPT
             ![id].history = Append(@, [url |-> url, parentUrl |-> parentUrl])]]

\* BrowsingSessionService.visitUrl, given the result r of the extraction
\* it awaits: whether it returned (ok), whether it got as far as the
\* extraction, and the store it leaves
visitUrl(sess, id, url, parentUrl, t, r) ==
  IF id \notin DOMAIN sess
  THEN [ok |-> FALSE, extracted |-> FALSE, sessions |-> sess]
  ELSE IF ~r.ok
  THEN [ok |-> FALSE, extracted |-> TRUE, sessions |-> getSession(sess, id, t)]
  ELSE [ok |-> TRUE, extracted |-> TRUE,
        sessions |->
          [getSession(sess, id, t) EXCEPT
             ![id].history = Append(@, [url |-> url, parentUrl |-> parentUrl]),
             ![id].currentUrl = url]]

\* BrowsingSessionService.addBookmark: the store after the call
addBookmark(sess, id, url, t) ==
  IF id \notin DOMAIN sess
  THEN sess
  ELSE [getSession(sess, id, t) EXCEPT
          ![id].bookmarks =
            IF \E k \in 1..Len(@) : @[k] = url THEN @ ELSE Append(@, url)]

\* the sweep with >= for >: a session idle for exactly the timeout goes
cleanupExpiredSessions_Inclusive(sess, t) ==
  [i \in {j \in DOMAIN sess : ~(t - sess[j].lastActivityTime >= SESSION_TIMEOUT)}
     |-> sess[i]]

\* BrowsingSessionService.cleanupExpiredSessions: the store after the sweep
cleanupExpiredSessions(sess, t) ==
  [i \in {j \in DOMAIN sess : ~(t - sess[j].lastActivityTime > SESSION_TIMEOUT)}
     |-> sess[i]]

NoParams ==
  [sessionId |-> NoSession, url |-> NoUrl, keywords |-> <<>>,
   maxLinksToFollow |-> 0, depth |-> 0, stayOnDomain |-> FALSE]

NoOutage == [url |-> NoUrl, kind |-> "none"]

NoResult == [pagesVisited |-> <<>>, navigationPath |-> <<>>]

NoRequest ==
  [session_id |-> NoSession, sessionId |-> NoSession, tracked |-> FALSE,
   inStore |-> FALSE, state |-> "none", n |-> 0]

NoStoreOp ==
  [kind |-> "none", id |-> NoSession, at |-> -1, found |-> FALSE,
   removed |-> {}, idle |-> -1, url |-> NoUrl, parentUrl |-> NoUrl,
   ok |-> FALSE]

NoLink == [url |-> NoUrl, text |-> <<>>, context |-> <<>>, relevanceScore |-> 0]

NoScore ==
  [link |-> NoLink, keywords |-> <<>>, parentUrl |-> NoUrl, score |-> -1]

(***************************************************************************)
(* The rate limiter (utils/rate-limiter.ts)                                *)
(***************************************************************************)
\* loadConfig: the limits when the environment sets none
DefaultLimits == [windowMs |-> 60000, maxRequests |-> 100]

NoEntry == [count |-> 0, windowStart |-> -1]

NoCheck ==
  [identifier |-> "", at |-> -1, allowed |-> FALSE, resetTime |-> -1,
   before |-> NoEntry, after |-> NoEntry, prevReset |-> -1]

\* Map.prototype.set on a Map whose order does not matter
Put(f, k, v) == [i \in DOMAIN f \cup {k} |-> IF i = k THEN v ELSE f[i]]

\* checkLimit with > for >= in the test of the count
checkLimit_CountExceeded(counts, cfg, identifier, t) ==
  IF identifier \notin DOMAIN counts
  THEN [allowed |-> TRUE, resetTime |-> -1,
        counts |-> Put(counts, identifier, [count |-> 1, windowStart |-> t])]
  ELSE LET entry == counts[identifier]
       IN IF t - entry.windowStart > cfg.windowMs
          THEN [allowed |-> TRUE, resetTime |-> -1,
                counts |-> Put(counts, identifier,
                               [count |-> 1, windowStart |-> t])]
          ELSE IF entry.count > cfg.maxRequests
               THEN [allowed |-> FALSE,
                     resetTime |-> entry.windowStart + cfg.windowMs,
                     counts |-> counts]
               ELSE [allowed |-> TRUE, resetTime |-> -1,
                     counts |-> [counts EXCEPT ![identifier].count = @ + 1]]

\* RateLimiter.checkLimit(identifier) called at time t: the answer
\* (resetTime -1 when the answer has none) and requestCounts after it
checkLimit(counts, cfg, identifier, t) ==
  IF identifier \notin DOMAIN counts
  THEN [allowed |-> TRUE, resetTime |-> -1,
        counts |-> Put(counts, identifier, [count |-> 1, windowStart |-> t])]
  ELSE LET entry == counts[identifier]
       IN IF t - entry.windowStart > cfg.windowMs
          THEN [allowed |-> TRUE, resetTime |-> -1,
                counts |-> Put(counts, identifier,
                               [count |-> 1, windowStart |-> t])]
          ELSE IF entry.count >= cfg.maxRequests
               THEN [allowed |-> FALSE,
                     resetTime |-> entry.windowStart + cfg.windowMs,
                     counts |-> counts]
               ELSE [allowed |-> TRUE, resetTime |-> -1,
                     counts |-> [counts EXCEPT ![identifier].count = @ + 1]]

\* RateLimiter.cleanup() run at time t: requestCounts after it
cleanup(counts, cfg, t) ==
  [i \in {j \in DOMAIN counts : ~(t - counts[j].windowStart > cfg.windowMs)}
     |-> counts[i]]

\* no limiter call made, no extractContent or visitUrl call begun
ExtraIdle ==
  /\ limiterConfig = DefaultLimits
  /\ requestCounts = <<>>
  /\ windowTally = <<>>
  /\ lastCheck = NoCheck
  /\ calls = <<>>

\* no request handled, no store call made, nothing scored
AuxIdle ==
  /\ activeSessions = <<>>
  /\ handled = NoRequest
  /\ storeOp = NoStoreOp
  /\ scored = NoScore

\* no session, no followLinks call started
NavIdle ==
  /\ sessions = <<>>
  /\ nextSessionId = 1
  /\ pc = "idle"
  /\ call = NoParams
  /\ createdSession = NoSession
  /\ startLinks = <<>>
  /\ stack = <<>>
  /\ visitedUrls = {}
  /\ result = NoResult
  /\ outcome = "none"
  /\ extractLog = <<>>
  /\ capLog = {}
  /\ lastFailed = NoUrl
  /\ outage = NoOutage

(***************************************************************************)
(* Cache specification: extraction calls against a cache near capacity     *)
(***************************************************************************)
\* URLs of the cache runs: https://ex.org/x, https://ex.org/xx, ...
CacheUrl(i) == MkUrl("https", HostEx, <<"/">> \o Rep("x", i))

PrefillEntry(i, t) ==
  [key |-> generateCacheKey(CacheUrl(i), "markdown"), timestamp |-> t,
   content |-> MkDoc(CacheUrl(i), "markdown", t, ReadablePage.converted)]

\* number of entries the prefilled caches hold: a full cache
Prefill == MaxCacheEntries

\* caches the program reaches by Prefill sequential extractions:
\* all in the same millisecond; in two batches 15 minutes apart; and all
\* at time 0 with the first key fetched again once its entry had expired
CachePrefills ==
  { [cache |-> <<>>, now |-> 0],
    [cache |-> [i \in 1..Prefill |-> PrefillEntry(i, 0)], now |-> 0],
    [cache |-> [i \in 1..Prefill |->
                  PrefillEntry(i, IF 2 * i <= Prefill THEN 0 ELSE 900000)],
     now |-> 900000],
    [cache |-> [i \in 1..Prefill |->
                  PrefillEntry(i, IF i = 1 THEN cacheTTL ELSE 0)],
     now |-> cacheTTL] }

\* URLs the cache runs extract: a prefilled one, a new one and a string
\* that is not a URL
ActiveUrls == {CacheUrl(1), CacheUrl(Prefill + 1), BadUrl}

ActiveFormats == {"markdown", "text"}

\* what the requests of the cache runs meet
Responses == {NetworkError, ReadablePage, FallbackPage, EmptyPage}

\* clock advances between calls: a quarter hour, and a quarter hour + 1 ms
TickSteps == {900000, 900001}

InitCache ==
  /\ \E p \in CachePrefills : contentCache = p.cache /\ now = p.now
  /\ lastCall = NoCall
  /\ prevCall = NoCall
  /\ lastEvicted = {}
  /\ ops = 0
  /\ NavIdle
  /\ AuxIdle
  /\ ExtraIdle

\* a caller awaits extractContent(url, format)
ExtractContent(url, format, response) ==
  /\ ops < MaxOps
  /\ LET r == extractContent(contentCache, url, format, now, response)
     IN /\ contentCache' = r.cache
        /\ lastCall' = CallRecord("content", url, format, now,
                                  r @@ [enhRequests |-> 0,
                                        enhanced |-> FALSE])
        /\ lastEvicted' = EvictedBy(contentCache,
                                    generateCacheKey(url, format), r.cache)
  /\ prevCall' = IF lastCall.key = generateCacheKey(url, format)
                  THEN lastCall ELSE NoCall
  /\ ops' = ops + 1
  /\ UNCHANGED <<now, navVars>>
  /\ UNCHANGED auxVars
  /\ UNCHANGED extraVars

\* a caller awaits extractEnhancedContent(url, format)
ExtractEnhancedContent(url, format, response, enhOk) ==
  /\ ops < MaxOps
  /\ LET r == extractEnhancedContent(contentCache, url, format, now,
                                     response, enhOk)
     IN /\ contentCache' = r.cache
        /\ lastCall' = CallRecord("enhanced", url, format, now, r)
        /\ lastEvicted' = EvictedBy(contentCache,
                                    generateCacheKey(url, format), r.cache)
  /\ prevCall' = IF lastCall.key = generateCacheKey(url, format)
                  THEN lastCall ELSE NoCall
  /\ ops' = ops + 1
  /\ UNCHANGED <<now, navVars>>
  /\ UNCHANGED auxVars
  /\ UNCHANGED extraVars

\* time passes between calls
Tick(d) ==
  /\ now + d <= MaxNow
  /\ now' = now + d
  /\ UNCHANGED <<contentCache, lastCall, prevCall, lastEvicted, ops, navVars>>
  /\ UNCHANGED auxVars
  /\ UNCHANGED extraVars

NextCache ==
  \/ \E url \in ActiveUrls, format \in ActiveFormats,
        response \in Responses :
       ExtractContent(url, format, response)
  \/ \E url \in ActiveUrls, response \in {NetworkError, ReadablePage},
        enhOk \in BOOLEAN :
       ExtractEnhancedContent(url, "markdown", response, enhOk)
  \/ \E d \in TickSteps : Tick(d)

SpecCache == InitCache /\ [][NextCache]_vars

(***************************************************************************)
(* Navigation specification: one followLinks call.  Every action is the    *)
(* code between two awaits.  The innermost followLinksRecursive call is    *)
(* the last frame of stack; a frame holds the links of the call, the       *)
(* index i of the link the for loop stands at, remainingDepth, parentUrl   *)
(* and whether the loop body is before the extraction ("iter") or before   *)
(* the visitUrl that ends it ("record").                                   *)
(***************************************************************************)
StartUrls == {UrlA, UrlGone, BadUrl}

KeywordLists == {<<>>, <<KwEnergy>>, <<KwEnergyCap, KwSolar>>}

Depths == (-1)..MaxDepth

LinkCounts == (-1)..MaxLinks

\* the request the network fails in a run: none, or the first axios
\* request ("net") or the first enhanceContent request ("enh") for a page
Outages ==
  {NoOutage} \cup
  {[url |-> u, kind |-> k] : u \in {UrlEnergy, UrlB}, k \in {"net", "enh"}}

Init ==
  /\ now = 0
  /\ contentCache = <<>>
  /\ lastCall = NoCall
  /\ prevCall = NoCall
  /\ lastEvicted = {}
  /\ ops = 0
  /\ NavIdle
  /\ AuxIdle
  /\ ExtraIdle

\* the result of extractEnhancedContent(url) awaited now, the network
\* serving the pages of AlivePages, all readable, except for the outage
ExtractionOf(url) ==
  extractEnhancedContent(contentCache, url, "markdown", now,
                         IF url \in AlivePages
                              /\ ~(outage.url = url /\ outage.kind = "net")
                         THEN ReadablePage ELSE NetworkError,
                         url \in AlivePages
                           /\ ~(outage.url = url /\ outage.kind = "enh"))

\* the effect of that extraction on the extractor and on the network
Extracted(url, r) ==
  /\ contentCache' = r.cache
  /\ lastCall' = CallRecord("enhanced", url, "markdown", now, r)
  /\ prevCall' = IF lastCall.key = generateCacheKey(url, "markdown")
                 THEN lastCall ELSE NoCall
  /\ lastEvicted' = EvictedBy(contentCache,
                              generateCacheKey(url, "markdown"), r.cache)
  /\ outage' = IF \/ outage.url # url
                  \/ (outage.kind = "net" /\ r.requests = 0)
                  \/ (outage.kind = "enh" /\ r.enhRequests = 0)
               THEN outage ELSE NoOutage

NotExtracted == UNCHANGED <<contentCache, lastCall, prevCall, lastEvicted, outage>>

\* content.links of an extraction result
LinksOf(url, r) == IF r.enhanced THEN PageOf(url).links ELSE <<>>

\* an entry of extractLog: the URL requested, by which code ("start":
\* followLinks, "link": followLinksRecursive, "visit": visitUrl), the
\* link followed (NoLink for the start page), the page it was found on,
\* whether the URL was in visitedUrls before the request, and whether
\* the extraction succeeded
LogEntry(url, src, link, parentUrl, r, seen) ==
  [url |-> url, src |-> src, link |-> link, parent |-> parentUrl,
   ok |-> r.ok, seen |-> seen]

\* a visited set that does not hold the start URL
InitialVisited_Empty(url) == {}

\* followLinks, line 1730: new Set<string>([url])
InitialVisited(url) == {url}

\* visitedUrls.add moved before the awaited extraction
VisitedAfter_Early(visited, url, r) == visited \cup {url}

\* followLinksRecursive, lines 1774-1777: visitedUrls after the awaited
\* extraction of url returned (r.ok) or threw
VisitedAfter(visited, url, r) == IF r.ok THEN visited \cup {url} ELSE visited

\* a client calls BrowsingSessionService.createSession
CreateSession ==
  /\ pc = "idle"
  /\ nextSessionId <= MaxSessions
  /\ sessions' = createSession(sessions, nextSessionId, now)
  /\ nextSessionId' = nextSessionId + 1
  /\ UNCHANGED <<cacheVars, pc, call, createdSession, startLinks, stack,
                 visitedUrls, result, outcome, extractLog, capLog,
                 lastFailed, outage>>
  /\ UNCHANGED auxVars
  /\ UNCHANGED extraVars

\* followLinks, lines 1618-1622: getSession(sessionId), createSession()
\* when it returns undefined; created is the id of the session created
followLinksSession(sess, nextId, sessionId, t) ==
  IF sessionId \in DOMAIN sess
  THEN [sessions |-> getSession(sess, sessionId, t), created |-> NoSession,
        nextSessionId |-> nextId]
  ELSE [sessions |-> createSession(sess, nextId, t), created |-> nextId,
        nextSessionId |-> nextId + 1]

\* followLinks, lines 1615-1622: resolve or create the session
FollowLinks(sessionId, url, keywords, maxLinksToFollow, depth, stayOnDomain, fails) ==
  /\ pc = "idle"
  /\ call' = [sessionId |-> sessionId, url |-> url, keywords |-> keywords,
              maxLinksToFollow |-> maxLinksToFollow, depth |-> depth,
              stayOnDomain |-> stayOnDomain]
  /\ LET s == followLinksSession(sessions, nextSessionId, sessionId, now)
     IN /\ sessions' = s.sessions
        /\ createdSession' = s.created
        /\ nextSessionId' = s.nextSessionId
  /\ outage' = fails
  /\ pc' = "extractStart"
  /\ UNCHANGED <<now, contentCache, lastCall, prevCall, lastEvicted, ops,
                 startLinks, stack, visitedUrls, result, outcome,
                 extractLog, capLog, lastFailed>>
  /\ UNCHANGED auxVars
  /\ UNCHANGED extraVars

\* followLinks, line 1626: extract the start page
ExtractStart ==
  /\ pc = "extractStart"
  /\ LET r == ExtractionOf(call.url)
     IN /\ Extracted(call.url, r)
        /\ extractLog' = Append(extractLog,
                                LogEntry(call.url, "start", NoLink, NoUrl, r,
                                         FALSE))
        /\ startLinks' = LinksOf(call.url, r)
        /\ IF r.ok
           THEN pc' = "visitStart" /\ outcome' = outcome
           ELSE pc' = "done" /\ outcome' = "failed"
  /\ lastFailed' = NoUrl
  /\ UNCHANGED <<now, ops, sessions, nextSessionId, call, createdSession,
                 stack, visitedUrls, result, capLog>>
  /\ UNCHANGED auxVars
  /\ UNCHANGED extraVars

\* followLinks, lines 1629-1746: record the start page in the session,
\* build the result, select the links of the start page and enter
\* followLinksRecursive up to its first await
VisitStart ==
  /\ pc = "visitStart"
  /\ LET r == ExtractionOf(call.url)
         v == visitUrl(sessions, call.sessionId, call.url, NoUrl, now, r)
         linksToFollow ==
           SelectStartLinks(startLinks, call.url, call.keywords,
                            call.maxLinksToFollow, call.stayOnDomain)
     IN /\ sessions' = v.sessions
        /\ IF v.extracted
           THEN /\ Extracted(call.url, r)
                /\ extractLog' =
                     Append(extractLog,
                            LogEntry(call.url, "visit", NoLink, NoUrl, r,
                                     FALSE))
           ELSE NotExtracted /\ extractLog' = extractLog
        /\ IF ~v.ok
           THEN /\ pc' = "done"
                /\ outcome' = "failed"
                /\ UNCHANGED <<result, visitedUrls, stack>>
           ELSE /\ result' =
                     [pagesVisited |-> <<[url |-> call.url, relevance |-> 1000]>>,
                      navigationPath |-> <<call.url>>]
                /\ IF \/ call.depth <= 0
                      \/ call.maxLinksToFollow <= 0
                      \/ Len(startLinks) = 0
                   THEN /\ pc' = "done"
                        /\ outcome' = "returned"
                        /\ UNCHANGED <<visitedUrls, stack>>
                   ELSE /\ visitedUrls' = InitialVisited(call.url)
                        /\ IF call.depth - 1 <= 0 \/ Len(linksToFollow) = 0
                           THEN /\ pc' = "done"
                                /\ outcome' = "returned"
                                /\ stack' = stack
                           ELSE /\ pc' = "loop"
                                /\ outcome' = outcome
                                /\ stack' =
                                     <<[links |-> linksToFollow, i |-> 1,
                                        remainingDepth |-> call.depth - 1,
                                        parentUrl |-> call.url,
                                        phase |-> "iter"]>>
  /\ lastFailed' = NoUrl
  /\ UNCHANGED <<now, ops, nextSessionId, call, createdSession, startLinks,
                 capLog>>
  /\ UNCHANGED auxVars
  /\ UNCHANGED extraVars

Top == stack[Len(stack)]

SetTop(f) == [stack EXCEPT ![Len(stack)] = f]

\* followLinksRecursive, lines 1768-1770: the link is already visited
SkipVisited ==
  /\ pc = "loop"
  /\ Top.phase = "iter"
  /\ Top.i <= Len(Top.links)
  /\ Top.links[Top.i].url \in visitedUrls
  /\ stack' = SetTop([Top EXCEPT !.i = @ + 1])
  /\ lastFailed' = NoUrl
  /\ UNCHANGED <<cacheVars, sessions, nextSessionId, pc, call,
                 createdSession, startLinks, visitedUrls, result, outcome,
                 extractLog, capLog, outage>>
  /\ UNCHANGED auxVars
  /\ UNCHANGED extraVars

\* followLinksRecursive, lines 1772-1850 and 1855-1857: extract the link;
\* on success add the page to the result, select its links and call
\* followLinksRecursive for them; on failure go on with the next link
ExtractLink ==
  /\ pc = "loop"
  /\ Top.phase = "iter"
  /\ Top.i <= Len(Top.links)
  /\ Top.links[Top.i].url \notin visitedUrls
  /\ LET link == Top.links[Top.i]
         r == ExtractionOf(link.url)
         links == LinksOf(link.url, r)
         sortedPageLinks ==
           SelectPageLinks(links, link.url, call.keywords,
                           IncludeDomains(call.url, call.stayOnDomain),
                           Top.remainingDepth)
     IN /\ Extracted(link.url, r)
        /\ extractLog' =
             Append(extractLog,
                    LogEntry(link.url, "link", link, Top.parentUrl, r,
                             link.url \in visitedUrls))
        /\ visitedUrls' = VisitedAfter(visitedUrls, link.url, r)
        /\ IF ~r.ok
           THEN /\ stack' = SetTop([Top EXCEPT !.i = @ + 1])
                /\ lastFailed' = link.url
                /\ UNCHANGED <<result, capLog>>
           ELSE /\ lastFailed' = NoUrl
                /\ result' =
                     [pagesVisited |->
                        Append(result.pagesVisited,
                               [url |-> link.url,
                                relevance |->
                                  calculateRelevanceScore(PageOf(link.url),
                                                          call.keywords)]),
                      navigationPath |->
                        Append(result.navigationPath, link.url)]
                /\ IF Top.remainingDepth >= 1 /\ Len(links) > 0
                   THEN /\ capLog' =
                             capLog \cup
                             {[remainingDepth |-> Top.remainingDepth,
                               cap |-> LevelCap(Top.remainingDepth),
                               candidates |-> Len(links),
                               kept |-> Len(sortedPageLinks)]}
                        /\ IF /\ Len(sortedPageLinks) > 0
                              /\ Top.remainingDepth - 1 > 0
                           THEN stack' =
                                  Append(SetTop([Top EXCEPT !.phase = "record"]),
                                         [links |-> sortedPageLinks, i |-> 1,
                                          remainingDepth |->
                                            Top.remainingDepth - 1,
                                          parentUrl |-> link.url,
                                          phase |-> "iter"])
                           ELSE stack' = SetTop([Top EXCEPT !.phase = "record"])
                   ELSE /\ capLog' = capLog
                        /\ stack' = SetTop([Top EXCEPT !.phase = "record"])
  /\ UNCHANGED <<now, ops, sessions, nextSessionId, pc, call, createdSession,
                 startLinks, outcome>>
  /\ UNCHANGED auxVars
  /\ UNCHANGED extraVars

\* followLinksRecursive, lines 1852-1857: record the visit in the session
\* (an error of visitUrl is caught) and go on with the next link
RecordVisit ==
  /\ pc = "loop"
  /\ Top.phase = "record"
  /\ LET link == Top.links[Top.i]
         r == ExtractionOf(link.url)
         v == visitUrl(sessions, call.sessionId, link.url, Top.parentUrl,
                       now, r)
     IN /\ sessions' = v.sessions
        /\ IF v.extracted
           THEN /\ Extracted(link.url, r)
                /\ extractLog' =
                     Append(extractLog,
                            LogEntry(link.url, "visit", link, Top.parentUrl,
                                     r, link.url \in visitedUrls))
           ELSE NotExtracted /\ extractLog' = extractLog
  /\ stack' = SetTop([Top EXCEPT !.i = @ + 1, !.phase = "iter"])
  /\ lastFailed' = NoUrl
  /\ UNCHANGED <<now, ops, nextSessionId, pc, call, createdSession,
                 startLinks, visitedUrls, result, outcome, capLog>>
  /\ UNCHANGED auxVars
  /\ UNCHANGED extraVars

\* followLinksRecursive returns after its last link; the outermost return
\* ends followLinks (lines 1743-1746)
ReturnFromLevel ==
  /\ pc = "loop"
  /\ Top.phase = "iter"
  /\ Top.i > Len(Top.links)
  /\ stack' = SubSeq(stack, 1, Len(stack) - 1)
  /\ IF Len(stack) = 1
     THEN pc' = "done" /\ outcome' = "returned"
     ELSE pc' = pc /\ outcome' = outcome
  /\ lastFailed' = NoUrl
  /\ UNCHANGED <<cacheVars, sessions, nextSessionId, call, createdSession,
                 startLinks, visitedUrls, result, extractLog, capLog, outage>>
  /\ UNCHANGED auxVars
  /\ UNCHANGED extraVars

Next ==
  \/ CreateSession
  \/ \E sessionId \in 0..MaxSessions, url \in StartUrls,
        keywords \in KeywordLists, maxLinksToFollow \in LinkCounts,
        depth \in Depths, stayOnDomain \in BOOLEAN, fails \in Outages :
       FollowLinks(sessionId, url, keywords, maxLinksToFollow, depth,
                   stayOnDomain, fails)
  \/ ExtractStart
  \/ VisitStart
  \/ SkipVisited
  \/ ExtractLink
  \/ RecordVisit
  \/ ReturnFromLevel

Spec == Init /\ [][Next]_vars

(***************************************************************************)
(* Properties of the navigation                                            *)
(***************************************************************************)
\* the extraction requests followLinksRecursive issued, in order
LinkRequests == SelectSeq(extractLog, LAMBDA e : e.src = "link")

\* the extraction requests for links of the start page, in order
StartLevelRequests ==
  SelectSeq(extractLog, LAMBDA e : e.src = "link" /\ e.parent = call.url)

PageUrls(res) == {res.pagesVisited[i].url : i \in 1..Len(res.pagesVisited)}

PathUrls(res) == {res.navigationPath[i] : i \in 1..Len(res.navigationPath)}

PassingStartLinks ==
  {k \in 1..Len(startLinks) :
     /\ calculateLinkRelevance(startLinks[k], call.keywords, call.url)
          >= relevanceThreshold
     /\ PassesDomain(startLinks[k],
                     IncludeDomains(call.url, call.stayOnDomain))
     /\ PassesKeywords(startLinks[k], call.keywords)}

\* C3: a followLinks call with depth = 1 and maxLinksToFollow >= 1 that
\* returns, the start page having a link (to another page) that passes
\* the filters and whose extraction succeeds, has a page besides the start
\* page in pagesVisited.
C3_DepthOneFollowsLinks ==
  (/\ pc = "done"
   /\ outcome = "returned"
   /\ call.depth = 1
   /\ call.maxLinksToFollow >= 1
   /\ \E k \in PassingStartLinks :
        /\ startLinks[k].url \in AlivePages
        /\ startLinks[k].url # call.url
        /\ outage.url # startLinks[k].url)
  => Len(result.pagesVisited) >= 2

\* C4: a followLinks call for a session id the store does not know, whose
\* start page extraction succeeds, returns a result, and the visit of the
\* start page is in the history of the session the call created.
C4_UnknownSessionCreated ==
  (/\ pc = "done"
   /\ createdSession # NoSession
   /\ Len(extractLog) >= 1
   /\ extractLog[1].ok)
  => /\ outcome = "returned"
     /\ createdSession \in DOMAIN sessions
     /\ \E h \in 1..Len(sessions[createdSession].history) :
          sessions[createdSession].history[h].url = call.url

\* C5: when the extraction of a link fails, that step adds the URL to
\* neither pagesVisited nor navigationPath nor the visited set, keeps the
\* result as it was, and moves the loop of that level to its next link;
\* pagesVisited and navigationPath only ever grow; and a call in which a
\* link was requested ends by returning its result.
C5_FailedLinkSkipped ==
  /\ [](lastFailed # NoUrl =>
          /\ lastFailed \notin visitedUrls
          /\ lastFailed \notin PageUrls(result)
          /\ lastFailed \notin PathUrls(result)
          /\ pc = "loop"
          /\ outcome = "none")
  /\ []((pc = "done" /\ Len(LinkRequests) > 0) => outcome = "returned")
  /\ [][/\ (lastFailed' # NoUrl =>
              /\ result' = result
              /\ visitedUrls' = visitedUrls
              /\ Len(stack') = Len(stack)
              /\ stack'[Len(stack)].links = Top.links
              /\ stack'[Len(stack)].i = Top.i + 1
              /\ stack'[Len(stack)].phase = "iter"
              /\ Top.links[Top.i].url = lastFailed')
        /\ (pc = "loop" =>
              /\ Len(result'.pagesVisited) >= Len(result.pagesVisited)
              /\ SubSeq(result'.pagesVisited, 1, Len(result.pagesVisited))
                   = result.pagesVisited
              /\ SubSeq(result'.navigationPath, 1, Len(result.navigationPath))
                   = result.navigationPath)]_vars

\* a call that returned although the extraction of a link failed between
\* two links of the same level that were extracted
C5_Witness ==
  /\ pc = "done"
  /\ outcome = "returned"
  /\ \E i, j, k \in 1..Len(LinkRequests) :
       /\ i < j
       /\ j < k
       /\ LinkRequests[i].ok
       /\ ~LinkRequests[j].ok
       /\ LinkRequests[k].ok
       /\ LinkRequests[i].parent = LinkRequests[j].parent
       /\ LinkRequests[k].parent = LinkRequests[j].parent
       /\ LinkRequests[i].url \in PageUrls(result)
       /\ LinkRequests[k].url \in PageUrls(result)
       /\ LinkRequests[j].url \notin PageUrls(result)

\* C6: of two caps followLinksRecursive applied in one traversal at
\* remaining depths r1 > r2 >= 1, the cap at r2 (the deeper level) is at
\* most the cap at r1.
C6_CapShrinksWithDepth ==
  \A a, b \in capLog :
    (a.remainingDepth > b.remainingDepth /\ b.remainingDepth >= 1)
    => b.cap <= a.cap

\* C7: the links of the start page that are followed number at most
\* maxLinksToFollow, each passes the threshold, the domain filter and the
\* keyword filter, fewer than maxLinksToFollow passing links score higher
\* than a followed one, they are requested in non-increasing score order,
\* and with keywords given each has a keyword in its text or context.
C7_StartLinksRanked ==
  /\ Len(StartLevelRequests) <= Max(call.maxLinksToFollow, 0)
  /\ \A i \in 1..Len(StartLevelRequests) :
       LET e == StartLevelRequests[i]
       IN /\ \E k \in PassingStartLinks :
               /\ startLinks[k].url = e.link.url
               /\ startLinks[k].text = e.link.text
               /\ startLinks[k].context = e.link.context
               /\ calculateLinkRelevance(startLinks[k], call.keywords,
                                         call.url) = e.link.relevanceScore
          /\ Cardinality({k \in PassingStartLinks :
                            calculateLinkRelevance(startLinks[k],
                                                   call.keywords, call.url)
                              > e.link.relevanceScore})
               < call.maxLinksToFollow
          /\ \A j \in 1..(i - 1) :
               StartLevelRequests[j].link.relevanceScore
                 >= e.link.relevanceScore
          /\ (Len(call.keywords) > 0 =>
                \E n \in 1..Len(call.keywords) :
                  Includes(ToLower(e.link.text \o <<" ">> \o e.link.context),
                           ToLower(call.keywords[n])))

\* a call with keywords that returned after following two links of the
\* start page with different scores while more links passed the filters
\* than maxLinksToFollow allows
C7_Witness ==
  /\ pc = "done"
  /\ outcome = "returned"
  /\ Len(call.keywords) > 0
  /\ Cardinality(PassingStartLinks) > call.maxLinksToFollow
  /\ Len(StartLevelRequests) >= 2
  /\ StartLevelRequests[1].link.relevanceScore
       > StartLevelRequests[2].link.relevanceScore
  /\ StartLevelRequests[1].ok
  /\ StartLevelRequests[2].ok

\* C8: a followLinks call with depth <= 0 or maxLinksToFollow <= 0 whose
\* start page extraction succeeds returns a result whose only visited
\* page is the start URL with relevance 1.0 and whose navigationPath is
\* <<start URL>>; no other URL is extracted or recorded in a session.
C8_DepthZeroOnlyStart ==
  (/\ pc = "done"
   /\ (call.depth <= 0 \/ call.maxLinksToFollow <= 0)
   /\ Len(extractLog) >= 1
   /\ extractLog[1].ok)
  => /\ outcome = "returned"
     /\ result.pagesVisited = <<[url |-> call.url, relevance |-> 1000]>>
     /\ result.navigationPath = <<call.url>>
     /\ \A i \in 1..Len(extractLog) : extractLog[i].url = call.url
     /\ \A id \in DOMAIN sessions :
          \A h \in 1..Len(sessions[id].history) :
            sessions[id].history[h].url = call.url

\* the part of C8 that holds: the same for calls whose session id the
\* store knows
C8_KnownSessionOnlyStart ==
  (call.sessionId \in DOMAIN sessions) => C8_DepthZeroOnlyStart

(***************************************************************************)
(* Properties of the content cache                                         *)
(***************************************************************************)
\* C1: when extractContent(url, format) succeeded and the next call is for
\* the same url and format while now - timestamp < TTL (timestamp: the
\* time the first call's document was cached), the second call succeeds
\* from the cache, returns the same document and issues no request; the
\* first call having fetched, the two calls issue exactly one request.
C1_SecondCallWithinTtlIsHit ==
  (/\ lastCall.kind # "none"
   /\ prevCall.kind # "none"
   /\ prevCall.ok
   /\ lastCall.at - prevCall.ts < cacheTTL)
  => /\ lastCall.ok
     /\ lastCall.hit
     /\ lastCall.doc = prevCall.doc
     /\ lastCall.requests = 0
     /\ (~prevCall.hit => prevCall.requests + lastCall.requests = 1)

\* a fetching call followed, after some time within the TTL, by a call
\* for the same key that was served from the cache
C1_Witness ==
  /\ prevCall.kind = "content"
  /\ lastCall.kind = "content"
  /\ prevCall.ok
  /\ ~prevCall.hit
  /\ prevCall.requests = 1
  /\ lastCall.hit
  /\ lastCall.at > prevCall.at

\* C9: a call of extractEnhancedContent(url) that finds a valid cache
\* entry for (url, markdown) performs no network request.
C9_EnhancedHitNoNetwork ==
  (lastCall.kind = "enhanced" /\ lastCall.hit)
  => lastCall.requests + lastCall.enhRequests = 0

C11_ExpiredEntryIsMiss ==
  [][ops' # ops =>
       LET k == lastCall'.key
           idx == CacheIndex(contentCache, k)
       IN /\ lastCall'.hit =>
               /\ idx # 0
               /\ now - contentCache[idx].timestamp < cacheTTL
               /\ lastCall'.doc = contentCache[idx].content
          /\ (/\ isValidUrl(k.url)
              /\ idx # 0
              /\ now - contentCache[idx].timestamp >= cacheTTL) =>
               /\ ~lastCall'.hit
               /\ lastCall'.requests = 1
               /\ lastCall'.ok =>
                    /\ CacheIndex(contentCache', k) = idx
                    /\ contentCache'[idx].timestamp = now
                    /\ contentCache'[idx].content = lastCall'.doc
                    /\ lastCall'.doc.fetchedAt = now]_vars

\* a call found the entry its predecessor had stored exactly cacheTTL
\* earlier, fetched again and replaced it
C11_Witness ==
  /\ prevCall.ok
  /\ lastCall.at - prevCall.ts = cacheTTL
  /\ lastCall.ok
  /\ ~lastCall.hit
  /\ lastCall.requests = 1
  /\ CacheIndex(contentCache, lastCall.key) # 0
  /\ contentCache[CacheIndex(contentCache, lastCall.key)].timestamp
       = lastCall.at

\* C12: a call of extractContent whose request fails returns no document,
\* no call issues more than one request, and the failed call leaves the
\* cache as it was: no entry added, the expired entry of the key neither
\* removed nor refreshed
C12_FailedFetchLeavesCache ==
  /\ [](/\ lastCall.requests <= 1
        /\ lastCall.fetched = "error" =>
             (~lastCall.ok /\ lastCall.doc = NoDoc /\ lastCall.requests = 1))
  /\ [][(ops' # ops /\ lastCall'.fetched = "error") =>
          contentCache' = contentCache]_vars

\* the request of a call failed while the Map held an expired entry of
\* the key, which is still there with its old timestamp
C12_Witness ==
  /\ lastCall.fetched = "error"
  /\ ~lastCall.ok
  /\ CacheIndex(contentCache, lastCall.key) # 0
  /\ lastCall.at
       - contentCache[CacheIndex(contentCache, lastCall.key)].timestamp
       >= cacheTTL

\* C13: extractContent never returns or caches a document with empty
\* content: a call that returns has a document of positive length and so
\* has every entry of the cache
C13_NoEmptyDocument ==
  /\ lastCall.ok => lastCall.doc.length > 0
  /\ \A i \in 1..Len(contentCache) : contentCache[i].content.length > 0

(***************************************************************************)
(* Session specification: contextual_navigation requests through           *)
(* NavigationHandlers, direct calls on the session store, the two          *)
(* cleanup timers and the clock.  A request runs the followLinks actions   *)
(* of the navigation specification; no time passes while it runs.          *)
(***************************************************************************)
\* requests handled in a run
MaxRequests == 2

\* the clock of the session runs stops here: 2 hours and 1 ms
MaxClock == 7200001

\* NavigationHandlers.cleanupExpiredSessions: expireTime, milliseconds
expireTime == 2 * 60 * 60 * 1000

\* handleContextualNavigation, line 44 (0 stands for an absent depth)
ValidDepth(depth) == Max(1, Min(3, IF depth = 0 THEN 1 ELSE depth))

\* handleContextualNavigation, line 47 (0 stands for an absent max_links)
ValidMaxLinks(max_links) ==
  Max(1, Min(5, IF max_links = 0 THEN 3 ELSE max_links))

\* session ids clients pass: none, and the first id createSession returns
SessionIds == {NoSession, 1}

\* the longest history a session has when a client calls visitUrl
MaxHistory == 2

\* idle times between requests: the session timeout, and what is left of
\* the handler's two hours after it plus 1 ms
WaitSteps == {SESSION_TIMEOUT, expireTime - SESSION_TIMEOUT + 1}

\* the store call a client or timer made now; idle is the time since the
\* last activity of session id before the call, -1 for an unknown id
StoreOp(kind, id, found, removed) ==
  [kind |-> kind, id |-> id, at |-> now, found |-> found,
   removed |-> removed,
   idle |-> IF id \in DOMAIN sessions
            THEN now - sessions[id].lastActivityTime
            ELSE -1,
   url |-> NoUrl, parentUrl |-> NoUrl, ok |-> FALSE]

\* handleContextualNavigation, lines 33-89, and followLinks up to its
\* first await
HandleContextualNavigation(session_id, url, keywords, depth, max_links, stay_on_domain) ==
  /\ pc = "idle"
  /\ handled.n < MaxRequests
  /\ url # NoUrl
  /\ LET tracked ==
           session_id # NoSession /\ session_id \in DOMAIN activeSessions
         inStore == session_id \in DOMAIN sessions
         sessionId == IF tracked THEN session_id ELSE nextSessionId
         afterHandler ==
           IF tracked /\ inStore
           THEN [sessions |-> getSession(sessions, session_id, now),
                 nextSessionId |-> nextSessionId]
           ELSE [sessions |-> createSession(sessions, nextSessionId, now),
                 nextSessionId |-> nextSessionId + 1]
         s == followLinksSession(afterHandler.sessions,
                                 afterHandler.nextSessionId, sessionId, now)
     IN /\ activeSessions' =
             [i \in DOMAIN activeSessions \cup {sessionId} |->
                IF i = sessionId THEN now ELSE activeSessions[i]]
        /\ sessions' = s.sessions
        /\ createdSession' = s.created
        /\ nextSessionId' = s.nextSessionId
        /\ call' = [sessionId |-> sessionId, url |-> url,
                    keywords |-> keywords,
                    maxLinksToFollow |-> ValidMaxLinks(max_links),
                    depth |-> ValidDepth(depth),
                    stayOnDomain |-> stay_on_domain]
        /\ handled' = [session_id |-> session_id, sessionId |-> sessionId,
                       tracked |-> tracked, inStore |-> inStore,
                       state |-> "running", n |-> handled.n + 1]
  /\ pc' = "extractStart"
  /\ storeOp' = NoStoreOp
  /\ UNCHANGED <<cacheVars, startLinks, stack, visitedUrls, result, outcome,
                 extractLog, capLog, lastFailed, outage, scored>>
  /\ UNCHANGED extraVars

\* handleContextualNavigation, lines 91-140: the reply, an error reply
\* when followLinks threw; the call is over
Reply ==
  /\ pc = "done"
  /\ handled.state = "running"
  /\ handled' = [handled EXCEPT
                   !.state = IF outcome = "failed" THEN "error" ELSE "ok"]
  /\ pc' = "idle"
  /\ call' = NoParams
  /\ createdSession' = NoSession
  /\ startLinks' = <<>>
  /\ stack' = <<>>
  /\ visitedUrls' = {}
  /\ result' = NoResult
  /\ outcome' = "none"
  /\ extractLog' = <<>>
  /\ capLog' = {}
  /\ lastFailed' = NoUrl
  /\ UNCHANGED <<cacheVars, sessions, nextSessionId, outage, activeSessions,
                 storeOp, scored>>
  /\ UNCHANGED extraVars

\* a client calls BrowsingSessionService.getSession(id)
GetSession(id) ==
  /\ pc = "idle"
  /\ sessions' = getSession(sessions, id, now)
  /\ storeOp' = StoreOp("get", id, id \in DOMAIN sessions, {})
  /\ UNCHANGED <<cacheVars, nextSessionId, pc, call, createdSession,
                 startLinks, stack, visitedUrls, result, outcome, extractLog,
                 capLog, lastFailed, outage, activeSessions, handled, scored>>
  /\ UNCHANGED extraVars

\* a client calls BrowsingSessionService.addBookmark(id, url)
AddBookmark(id, url) ==
  /\ pc = "idle"
  /\ sessions' = addBookmark(sessions, id, url, now)
  /\ storeOp' = StoreOp("bookmark", id, id \in DOMAIN sessions, {})
  /\ UNCHANGED <<cacheVars, nextSessionId, pc, call, createdSession,
                 startLinks, stack, visitedUrls, result, outcome, extractLog,
                 capLog, lastFailed, outage, activeSessions, handled, scored>>
  /\ UNCHANGED extraVars

\* the request in progress awaits an extraction or a visitUrl call: the
\* event loop can run timers; between two awaits the call runs in one turn
Awaiting ==
  \/ pc \in {"extractStart", "visitStart"}
  \/ /\ pc = "loop"
     /\ \/ Top.phase = "record"
        \/ /\ Top.phase = "iter"
           /\ Top.i <= Len(Top.links)
           /\ Top.links[Top.i].url \notin visitedUrls

\* the timer of BrowsingSessionService fires, between requests or while
\* a request awaits: cleanupExpiredSessions()
CleanupExpiredSessions ==
  /\ pc = "idle" \/ Awaiting
  /\ sessions' = cleanupExpiredSessions(sessions, now)
  /\ storeOp' = StoreOp("sweep", NoSession, FALSE,
                        DOMAIN sessions
                          \ DOMAIN cleanupExpiredSessions(sessions, now))
  /\ UNCHANGED <<cacheVars, nextSessionId, pc, call, createdSession,
                 startLinks, stack, visitedUrls, result, outcome, extractLog,
                 capLog, lastFailed, outage, activeSessions, handled, scored>>
  /\ UNCHANGED extraVars

\* a client calls BrowsingSessionService.visitUrl(id, url, parentUrl) and
\* the network answers the request of the extraction, if it makes one,
\* with response
VisitUrl(id, url, parentUrl, response) ==
  /\ pc = "idle"
  /\ id \in DOMAIN sessions => Len(sessions[id].history) < MaxHistory
  /\ LET r == extractEnhancedContent(contentCache, url, "markdown", now,
                                     response, response.ok)
         v == visitUrl(sessions, id, url, parentUrl, now, r)
     IN /\ sessions' = v.sessions
        /\ IF v.extracted THEN Extracted(url, r) ELSE NotExtracted
        /\ storeOp' = [StoreOp("visit", id, id \in DOMAIN sessions, {})
                         EXCEPT !.url = url, !.parentUrl = parentUrl,
                                !.ok = v.ok]
  /\ UNCHANGED <<now, ops, nextSessionId, pc, call, createdSession,
                 startLinks, stack, visitedUrls, result, outcome, extractLog,
                 capLog, lastFailed, activeSessions, handled, scored>>
  /\ UNCHANGED extraVars

\* the timer of NavigationHandlers fires: its cleanupExpiredSessions()
HandlerCleanup ==
  /\ pc = "idle"
  /\ activeSessions' =
       [i \in {j \in DOMAIN activeSessions :
                 ~(now - activeSessions[j] > expireTime)}
          |-> activeSessions[i]]
  /\ UNCHANGED <<cacheVars, navVars, handled, storeOp, scored>>
  /\ UNCHANGED extraVars

\* time passes between requests or, more than the session timeout at
\* once, while a request awaits
Wait(d) ==
  /\ pc = "idle" \/ (Awaiting /\ d > SESSION_TIMEOUT)
  /\ now + d <= MaxClock
  /\ now' = now + d
  /\ storeOp' = NoStoreOp
  /\ UNCHANGED <<contentCache, lastCall, prevCall, lastEvicted, ops, navVars,
                 activeSessions, handled, scored>>
  /\ UNCHANGED extraVars

NextSession ==
  \/ \E session_id \in SessionIds, depth \in {0, 3} :
       HandleContextualNavigation(session_id, UrlA, <<>>, depth, 1, FALSE)
  \/ ExtractStart
  \/ VisitStart
  \/ SkipVisited
  \/ ExtractLink
  \/ RecordVisit
  \/ ReturnFromLevel
  \/ Reply
  \/ \E id \in SessionIds : GetSession(id)
  \/ \E id \in SessionIds : AddBookmark(id, UrlB)
  \/ CleanupExpiredSessions
  \/ HandlerCleanup
  \/ \E d \in WaitSteps : Wait(d)

SpecSession == Init /\ [][NextSession]_vars

\* a step in which a client or timer called the store (a call that
\* repeats the call right before it leaves the state as it is)
StoreCall(kind) == storeOp' # storeOp /\ storeOp'.kind = kind

\* C14: after cleanupExpiredSessions runs at time now, a session is in the
\* store if and only if it was there before the sweep and
\* now - lastActivityTime <= SESSION_TIMEOUT, and the sessions that stay
\* are unchanged; a session idle for longer is in the store right before
\* the sweep and unknown to getSession after it
C14_SweepRemovesExactlyIdle ==
  [][StoreCall("sweep") =>
       /\ DOMAIN sessions' =
            {i \in DOMAIN sessions :
               now - sessions[i].lastActivityTime <= SESSION_TIMEOUT}
       /\ \A i \in DOMAIN sessions' : sessions'[i] = sessions[i]
       /\ \A i \in DOMAIN sessions :
            now - sessions[i].lastActivityTime > SESSION_TIMEOUT =>
              /\ i \notin DOMAIN sessions'
              /\ getSession(sessions', i, now) = sessions']_vars

\* a sweep removed a session and kept another that had been idle for
\* exactly the timeout
C14_Witness ==
  /\ storeOp.kind = "sweep"
  /\ storeOp.removed # {}
  /\ \E i \in DOMAIN sessions :
       storeOp.at - sessions[i].lastActivityTime = SESSION_TIMEOUT

\* C15: getSession(id) for a session of the store sets its
\* lastActivityTime to the current time and changes nothing else: its
\* startTime, history, currentUrl and bookmarks, every other session and
\* every other part of the state stay; for an unknown id it returns
\* undefined and changes no state
C15_GetSessionFrame ==
  [][StoreCall("get") =>
       LET id == storeOp'.id
       IN /\ storeOp'.found = (id \in DOMAIN sessions)
          /\ DOMAIN sessions' = DOMAIN sessions
          /\ \A j \in DOMAIN sessions : j # id => sessions'[j] = sessions[j]
          /\ id \in DOMAIN sessions =>
               /\ sessions'[id].lastActivityTime = now
               /\ sessions'[id].startTime = sessions[id].startTime
               /\ sessions'[id].history = sessions[id].history
               /\ sessions'[id].currentUrl = sessions[id].currentUrl
               /\ sessions'[id].bookmarks = sessions[id].bookmarks
          /\ UNCHANGED <<cacheVars, nextSessionId, activeSessions,
                         handled>>]_vars

\* getSession found a session with history and a bookmark, idle since an
\* earlier time, while the store held another idle session
C15_Witness ==
  /\ storeOp.kind = "get"
  /\ storeOp.found
  /\ storeOp.id \in DOMAIN sessions
  /\ sessions[storeOp.id].lastActivityTime = storeOp.at
  /\ sessions[storeOp.id].startTime < storeOp.at
  /\ Len(sessions[storeOp.id].history) > 0
  /\ Len(sessions[storeOp.id].bookmarks) > 0
  /\ \E j \in DOMAIN sessions :
       j # storeOp.id /\ sessions[j].lastActivityTime < storeOp.at

\* the pages of the result are in the history of the session
RecordedUnder(id) ==
  /\ id \in DOMAIN sessions
  /\ \A p \in 1..Len(result.pagesVisited) :
       \E h \in 1..Len(sessions[id].history) :
         sessions[id].history[h].url = result.pagesVisited[p].url

\* C16: a contextual_navigation request that carries a session_id the
\* handler tracks as active succeeds and its visits are recorded under
\* that session id, also when the store has swept the session
C16_TrackedSessionContinues ==
  (pc = "done" /\ handled.state = "running" /\ handled.tracked) =>
    /\ outcome = "returned"
    /\ handled.sessionId = handled.session_id
    /\ Len(result.pagesVisited) > 0
    /\ RecordedUnder(handled.session_id)

\* the same for a request whose session the store holds, when the request
\* arrives and when followLinks ends
C16_LiveSessionContinues ==
  (pc = "done" /\ handled.state = "running" /\ handled.tracked
     /\ handled.inStore /\ handled.session_id \in DOMAIN sessions) =>
    /\ outcome = "returned"
    /\ handled.sessionId = handled.session_id
    /\ Len(result.pagesVisited) > 0
    /\ RecordedUnder(handled.session_id)

\* C17: with stayOnDomain every page of pagesVisited has the host of the
\* start URL, and no link with another host is extracted
C17_StayOnDomainSameHost ==
  call.stayOnDomain =>
    /\ \A p \in 1..Len(result.pagesVisited) :
         Hostname(result.pagesVisited[p].url) = Hostname(call.url)
    /\ \A e \in 1..Len(extractLog) :
         extractLog[e].src = "link" =>
           Hostname(extractLog[e].url) = Hostname(call.url)

\* with stayOnDomain no link is extracted whose host does not contain the
\* host of the start URL
C17_UnrelatedHostExcluded ==
  call.stayOnDomain =>
    \A e \in 1..Len(extractLog) :
      extractLog[e].src = "link" =>
        Includes(Hostname(extractLog[e].url), Hostname(call.url))

(***************************************************************************)
(* Scoring specification: calculateLinkRelevance applied to one link, one  *)
(* keyword list and one source page, all drawn from small sets.            *)
(***************************************************************************)
\* anchor texts of 4, 5, 20 and 21 characters without a keyword, and of 6
\* and 26 characters with keywords
ScoreTexts ==
  {Rep("x", 4), Rep("x", 5), Rep("x", 20), Rep("x", 21),
   <<"E","n","e","r","g","y">>,
   <<"s","o","l","a","r"," ","e","n","e","r","g","y"," ","f","o","r",
     " ","a","l","l"," ","h","o","m","e","s">>}

\* contexts: none, one with both keywords, one with neither
ScoreContexts ==
  {<<>>, <<"s","o","l","a","r"," ","e","n","e","r","g","y">>, <<"n","e","w","s">>}

\* link targets: on the host of the first source page with a keyword in
\* the URL, on another host, and a string that is not a URL
ScoreUrls == {UrlEnergy, UrlD, BadUrl}

\* the pages the links are found on
ScoreParents == {UrlA, UrlD}

InitScore ==
  /\ now = 0
  /\ contentCache = <<>>
  /\ lastCall = NoCall
  /\ prevCall = NoCall
  /\ lastEvicted = {}
  /\ ops = 0
  /\ NavIdle
  /\ activeSessions = <<>>
  /\ handled = NoRequest
  /\ storeOp = NoStoreOp
  /\ ExtraIdle
  /\ \E url \in ScoreUrls, text \in ScoreTexts, context \in ScoreContexts,
        keywords \in KeywordLists, parentUrl \in ScoreParents :
       scored = [link |-> [url |-> url, text |-> text, context |-> context,
                           relevanceScore |-> 0],
                 keywords |-> keywords, parentUrl |-> parentUrl, score |-> -1]

\* followLinks or followLinksRecursive scores the link
CalculateLinkRelevance ==
  /\ scored.score = -1
  /\ scored' = [scored EXCEPT
                  !.score = calculateLinkRelevance(scored.link,
                                                   scored.keywords,
                                                   scored.parentUrl)]
  /\ UNCHANGED <<cacheVars, navVars, activeSessions, handled, storeOp>>
  /\ UNCHANGED extraVars

NextScore == CalculateLinkRelevance

SpecScore == InitScore /\ [][NextScore]_vars

Clamp(x) == Max(0, Min(x, 1000))

\* the reference rule, per keyword: +0.3 when the keyword occurs in the
\* anchor text or the context, +0.2 when in the target URL, +0.2 when in
\* the context
ReferenceKeywordScore(link, kw) ==
  LET k == ToLower(kw)
  IN (IF Includes(ToLower(link.text), k) \/ Includes(ToLower(link.context), k)
      THEN 300 ELSE 0)
     + (IF Includes(ToLower(Href(link.url)), k) THEN 200 ELSE 0)
     + (IF Includes(ToLower(link.context), k) THEN 200 ELSE 0)

RECURSIVE SumReferenceScores(_, _)
SumReferenceScores(link, kws) ==
  IF kws = <<>> THEN 0
  ELSE ReferenceKeywordScore(link, Head(kws))
       + SumReferenceScores(link, Tail(kws))

\* the reference rule, in thousandths
ReferenceScore(link, keywords, parentUrl) ==
  LET base ==
        IF Len(keywords) = 0 THEN 600
        ELSE Clamp(SumReferenceScores(link, keywords) \div Len(keywords))
      domain ==
        IF /\ isValidUrl(link.url)
           /\ isValidUrl(parentUrl)
           /\ Hostname(link.url) = Hostname(parentUrl)
        THEN base + 100 ELSE base
      short == IF Len(link.text) < 5 THEN domain \div 2 ELSE domain
      long == IF Len(link.text) > 20 THEN short + 100 ELSE short
  IN Clamp(long)

\* C18: calculateLinkRelevance equals the reference rule: base 0.6 for an
\* empty keyword list, else the clamped mean of the keyword contributions;
\* then +0.1 for the host of the source page, then halved for an anchor
\* text under 5 characters, then +0.1 for one over 20, then clamped
C18_MatchesReferenceRule ==
  scored.score # -1 =>
    scored.score
      = ReferenceScore(scored.link, scored.keywords, scored.parentUrl)

\* the same for lists of one keyword
C18_MatchesReferenceForOneKeyword ==
  (scored.score # -1 /\ Len(scored.keywords) = 1) =>
    scored.score
      = ReferenceScore(scored.link, scored.keywords, scored.parentUrl)

\* the anchor texts of 5 to 20 characters with which the link has the
\* same keyword matches
SameMatchTexts ==
  {t \in ScoreTexts :
     /\ Len(t) >= 5
     /\ Len(t) <= 20
     /\ \A i \in 1..Len(scored.keywords) :
          LinkKeywordScore([scored.link EXCEPT !.text = t],
                           scored.keywords[i])
            = LinkKeywordScore(scored.link, scored.keywords[i])}

\* C19: the score of a link with an anchor text under 5 characters is
\* exactly half the score of the same link (same keyword matches, URL and
\* source page) with an anchor text of 5 to 20 characters, for every
\* keyword list, the empty one included
C19_ShortTextHalves ==
  (scored.score # -1 /\ Len(scored.link.text) < 5) =>
    \A t \in SameMatchTexts :
      2 * scored.score
        = calculateLinkRelevance([scored.link EXCEPT !.text = t],
                                 scored.keywords, scored.parentUrl)

\* the same for the keyword lists that are not empty
C19_ShortTextHalvesWithKeywords ==
  (scored.score # -1 /\ Len(scored.link.text) < 5
     /\ Len(scored.keywords) > 0) =>
    \A t \in SameMatchTexts :
      2 * scored.score
        = calculateLinkRelevance([scored.link EXCEPT !.text = t],
                                 scored.keywords, scored.parentUrl)

\* C20: the score calculateLinkRelevance returns lies in [0, 1]
C20_ScoreInUnitRange ==
  scored.score # -1 => (scored.score >= 0 /\ scored.score <= 1000)

\* a link scored with two keywords that match its text, context and URL,
\* on the host of its source page and with a long anchor text
C20_Witness ==
  /\ scored.score # -1
  /\ Len(scored.keywords) = 2
  /\ SumLinkScores(scored.link, scored.keywords) >= 1200
  /\ Hostname(scored.link.url) = Hostname(scored.parentUrl)
  /\ Len(scored.link.text) > 20

(***************************************************************************)
(* The rate limiter: checkLimit calls of a few clients, the cleanup timer  *)
(* and the clock                                                           *)
(***************************************************************************)
\* the largest maxRequests configured
MaxLimit == 2

\* the last millisecond of the limiter's clock
MaxLimiterClock == 8

\* the windows configured, in ms (RATE_LIMIT_WINDOW_MS)
WindowLengths == {2, 3}

\* the identifiers checkLimit is called with
Identifiers == {"client-a", "client-b"}

NoTally == [first |-> -1, allowed |-> 0, reset |-> -1]

\* the tally of a client after a call at time t: a window lasts from its
\* first request until a call arrives more than windowMs after that
\* request; reset is the resetTime of the denials since the last allowed
\* call
TallyAfter(tally, cfg, t, answer) ==
  LET fresh == tally.first = -1 \/ t - tally.first > cfg.windowMs
      base == IF fresh THEN [NoTally EXCEPT !.first = t] ELSE tally
  IN IF answer.allowed
     THEN [base EXCEPT !.allowed = @ + 1, !.reset = -1]
     ELSE [base EXCEPT !.reset = answer.resetTime]

InitLimiter ==
  /\ now = 0
  /\ contentCache = <<>>
  /\ lastCall = NoCall
  /\ prevCall = NoCall
  /\ lastEvicted = {}
  /\ ops = 0
  /\ NavIdle
  /\ AuxIdle
  /\ \E w \in WindowLengths, m \in 1..MaxLimit :
       limiterConfig = [windowMs |-> w, maxRequests |-> m]
  /\ requestCounts = <<>>
  /\ windowTally = [i \in Identifiers |-> NoTally]
  /\ lastCheck = NoCheck
  /\ calls = <<>>

\* a caller runs rateLimiter.checkLimit(identifier)
CheckLimit(identifier) ==
  /\ LET r == checkLimit(requestCounts, limiterConfig, identifier, now)
         entry(c) == IF identifier \in DOMAIN c THEN c[identifier] ELSE NoEntry
     IN /\ requestCounts' = r.counts
        /\ windowTally' =
             [windowTally EXCEPT
                ![identifier] = TallyAfter(@, limiterConfig, now, r)]
        /\ lastCheck' =
             [identifier |-> identifier, at |-> now, allowed |-> r.allowed,
              resetTime |-> r.resetTime, before |-> entry(requestCounts),
              after |-> entry(r.counts),
              prevReset |-> windowTally[identifier].reset]
  /\ UNCHANGED <<cacheVars, navVars, auxVars, limiterConfig, calls>>

\* the limiter's timer fires: cleanup()
LimiterCleanup ==
  /\ requestCounts' = cleanup(requestCounts, limiterConfig, now)
  /\ UNCHANGED <<cacheVars, navVars, auxVars, limiterConfig, windowTally,
                 lastCheck, calls>>

\* a millisecond passes
LimiterTick ==
  /\ now < MaxLimiterClock
  /\ now' = now + 1
  /\ UNCHANGED <<contentCache, lastCall, prevCall, lastEvicted, ops, navVars,
                 auxVars, extraVars>>

NextLimiter ==
  \/ \E identifier \in Identifiers : CheckLimit(identifier)
  \/ LimiterCleanup
  \/ LimiterTick

SpecLimiter == InitLimiter /\ [][NextLimiter]_vars

\* C21: with maxRequests >= 1, checkLimit allows at most maxRequests calls
\* of an identifier in one window (from the window's first request until a
\* call arrives more than windowMs after it), no stored count exceeds
\* maxRequests, and a denied call leaves the identifier's entry as it was.
C21_AtMostMaxPerWindow ==
  limiterConfig.maxRequests >= 1 =>
    /\ \A i \in DOMAIN windowTally :
         windowTally[i].allowed <= limiterConfig.maxRequests
    /\ \A i \in DOMAIN requestCounts :
         requestCounts[i].count <= limiterConfig.maxRequests
    /\ (lastCheck.at # -1 /\ ~lastCheck.allowed =>
          lastCheck.after = lastCheck.before)

\* a client was allowed maxRequests = 2 calls in its window and the next
\* call, in the same window, was denied
C21_Witness ==
  /\ limiterConfig.maxRequests = 2
  /\ lastCheck.at # -1
  /\ ~lastCheck.allowed
  /\ windowTally[lastCheck.identifier].allowed = 2
  /\ lastCheck.before.count = 2
  /\ lastCheck.at > lastCheck.before.windowStart

\* C30: after a denial that reported resetTime R, the identifier's next
\* call at a time t >= R is allowed and starts a new window: its entry is
\* count 1, windowStart t.
C30_AllowedFromResetTime ==
  (lastCheck.prevReset # -1 /\ lastCheck.at >= lastCheck.prevReset)
  => /\ lastCheck.allowed
     /\ lastCheck.after = [count |-> 1, windowStart |-> lastCheck.at]

\* the part of C30 that holds: the same for a call later than R
C30_AllowedAfterResetTime ==
  (lastCheck.prevReset # -1 /\ lastCheck.at > lastCheck.prevReset)
  => /\ lastCheck.allowed
     /\ lastCheck.after = [count |-> 1, windowStart |-> lastCheck.at]

\* a call later than the resetTime of the denial before it
C30_LaterCall ==
  /\ lastCheck.prevReset # -1
  /\ lastCheck.at > lastCheck.prevReset
  /\ lastCheck.allowed

(***************************************************************************)
(* Properties of the history a followLinks call records                    *)
(***************************************************************************)
\* the history of the session the call records in
CallHistory ==
  IF call.sessionId \in DOMAIN sessions
  THEN sessions[call.sessionId].history
  ELSE <<>>

\* the URLs of result.pagesVisited
VisitedPages ==
  {result.pagesVisited[i].url : i \in 1..Len(result.pagesVisited)}

\* page p, as the network serves it, has a link to u
FoundOn(u, p) ==
  \E k \in 1..Len(PageOf(p).links) :
    \/ PageOf(p).links[k].url = u
    \/ AbsoluteUrl(PageOf(p).links[k].url, p) = u

RECURSIVE ChainToStart(_, _)
\* following parentUrl from the entry of u reaches the start URL without
\* meeting a URL of seen or a URL twice
ChainToStart(u, seen) ==
  IF u = call.url THEN TRUE
  ELSE IF u \in seen THEN FALSE
  ELSE LET es == {i \in 1..Len(CallHistory) : CallHistory[i].url = u}
       IN /\ es # {}
          /\ LET parentUrl == CallHistory[CHOOSE i \in es : TRUE].parentUrl
             IN parentUrl # NoUrl /\ ChainToStart(parentUrl, seen \cup {u})

PathIndex(u) ==
  IF \E k \in 1..Len(result.navigationPath) : result.navigationPath[k] = u
  THEN CHOOSE k \in 1..Len(result.navigationPath) :
         result.navigationPath[k] = u
  ELSE 0

\* C27: when a followLinks call returned, the history entries are in the
\* order of navigationPath, every entry with a parentUrl comes after the
\* entry of that parent, and currentUrl is the last URL of navigationPath.
C27_HistoryFollowsPath ==
  (pc = "done" /\ outcome = "returned" /\ call.sessionId \in DOMAIN sessions)
  => /\ \A i, j \in 1..Len(CallHistory) :
          i < j => PathIndex(CallHistory[i].url) < PathIndex(CallHistory[j].url)
     /\ \A j \in 1..Len(CallHistory) :
          CallHistory[j].parentUrl # NoUrl =>
            \E i \in 1..(j - 1) :
              CallHistory[i].url = CallHistory[j].parentUrl
     /\ sessions[call.sessionId].currentUrl
          = result.navigationPath[Len(result.navigationPath)]

\* the part of C27 that holds: the same for the calls that follow the
\* links of the start page only
C27_OneLevelFollowsPath ==
  call.depth <= 2 => C27_HistoryFollowsPath

\* a call of depth <= 2 that returned with two pages besides the start page
C27_OneLevelCall ==
  /\ pc = "done"
  /\ outcome = "returned"
  /\ call.depth = 2
  /\ Len(CallHistory) >= 3

(***************************************************************************)
(* Termination of followLinks: the call under the scheduling of the event  *)
(* loop, where every awaited extraction returns or throws and the          *)
(* continuation of the call then runs                                      *)
(***************************************************************************)
\* a step of the call in progress
CallStep ==
  \/ ExtractStart
  \/ VisitStart
  \/ SkipVisited
  \/ ExtractLink
  \/ RecordVisit
  \/ ReturnFromLevel

\* calls without keywords, from the start page or a page that is gone
NextLive ==
  \/ CreateSession
  \/ \E sessionId \in 0..MaxSessions, url \in {UrlA, UrlGone},
        maxLinksToFollow \in {0, MaxLinks}, depth \in 0..MaxDepth,
        fails \in Outages :
       FollowLinks(sessionId, url, <<>>, maxLinksToFollow, depth, FALSE,
                   fails)
  \/ CallStep

SpecLive == Init /\ [][NextLive]_vars /\ WF_vars(CallStep)

\* the pages followLinksRecursive added to the result for links of page p
PagesUnder(p) ==
  {LinkRequests[i].url :
     i \in {j \in 1..Len(LinkRequests) :
              LinkRequests[j].ok /\ LinkRequests[j].parent = p}}

\* C25: every followLinks call ends, and a call with depth <= 3 and
\* maxLinksToFollow <= 5 adds at most 16 pages to pagesVisited: the start
\* page, at most maxLinksToFollow pages for links of the start page, at
\* most 2 pages for the links of each of those, and none below.
C25_TerminatesWithinSixteenPages ==
  /\ [](call.depth <= 3 /\ call.maxLinksToFollow <= 5 =>
          /\ Len(result.pagesVisited) <= 16
          /\ Cardinality(PagesUnder(call.url)) <= Max(call.maxLinksToFollow, 0)
          /\ \A p \in PagesUnder(call.url) : Cardinality(PagesUnder(p)) <= 2
          /\ VisitedPages \subseteq
               {call.url} \cup PagesUnder(call.url)
                 \cup UNION {PagesUnder(p) : p \in PagesUnder(call.url)})
  /\ (pc = "extractStart" ~> pc = "done")

\* a call of depth 3 that returned with two or more pages for links of
\* the start page and 2 pages for the links of one of them, a page with
\* more than 2 links
C25_Witness ==
  /\ pc = "done"
  /\ outcome = "returned"
  /\ call.depth = 3
  /\ Cardinality(PagesUnder(call.url)) >= 2
  /\ \E p \in PagesUnder(call.url) :
       /\ Cardinality(PagesUnder(p)) = 2
       /\ Len(PageOf(p).links) > 2

(***************************************************************************)
(* Properties of a followLinks call interleaved with the clock and the     *)
(* sweep of the session store                                              *)
(***************************************************************************)
\* C28: when followLinks returns a result, every URL of pagesVisited has a
\* history entry in the session of the call, and navigationPath lists the
\* URLs of pagesVisited in order, whatever the sweep did meanwhile.
C28_ResultPagesRecorded ==
  (pc = "done" /\ outcome = "returned") =>
    /\ RecordedUnder(call.sessionId)
    /\ result.navigationPath
         = [i \in 1..Len(result.pagesVisited) |-> result.pagesVisited[i].url]

\* the part of C28 that holds: navigationPath lists the URLs of
\* pagesVisited in order, and the pages are recorded when the session of
\* the call was not swept
C28_RecordedUnlessSwept ==
  (pc = "done" /\ outcome = "returned") =>
    /\ call.sessionId \in DOMAIN sessions => RecordedUnder(call.sessionId)
    /\ result.navigationPath
         = [i \in 1..Len(result.pagesVisited) |-> result.pagesVisited[i].url]

\* a call that returned two pages or more, all recorded, after a sweep
\* that ran during the call and found nothing to remove
C28_SweptDuringCall ==
  /\ pc = "done"
  /\ outcome = "returned"
  /\ Len(result.pagesVisited) >= 2
  /\ RecordedUnder(call.sessionId)
  /\ storeOp.kind = "sweep"
  /\ storeOp.removed = {}

\* C29: only the sweep expires sessions. getSession returns a session of
\* the store however long it has been idle and resets its idle time to 0,
\* so that a sweep within the timeout after the read keeps it; a session
\* leaves the store only in a sweep and only when idle for longer than the
\* timeout, and a sweep removes every session idle for longer than that.
C29_ExpiryOnlyBySweep ==
  [][/\ (StoreCall("get") /\ storeOp'.id \in DOMAIN sessions) =>
          /\ storeOp'.found
          /\ storeOp'.id \in DOMAIN sessions'
          /\ sessions'[storeOp'.id].lastActivityTime = now
     /\ \A i \in DOMAIN sessions :
          i \notin DOMAIN sessions' =>
            /\ StoreCall("sweep")
            /\ now - sessions[i].lastActivityTime > SESSION_TIMEOUT
     /\ StoreCall("sweep") =>
          \A i \in DOMAIN sessions :
            now - sessions[i].lastActivityTime > SESSION_TIMEOUT =>
              i \notin DOMAIN sessions']_vars

\* getSession found a session that had been idle for longer than the
\* timeout, and the store holds it with idle time 0
C29_Witness ==
  /\ storeOp.kind = "get"
  /\ storeOp.found
  /\ storeOp.idle > SESSION_TIMEOUT
  /\ storeOp.id \in DOMAIN sessions
  /\ sessions[storeOp.id].lastActivityTime = storeOp.at
  /\ now = storeOp.at

(***************************************************************************)
(* Clients of the session store: visitUrl, addBookmark and the clock, on a *)
(* store with two sessions                                                 *)
(***************************************************************************)
\* the store after two createSession calls at time 0
InitVisit ==
  /\ now = 0
  /\ contentCache = <<>>
  /\ lastCall = NoCall
  /\ prevCall = NoCall
  /\ lastEvicted = {}
  /\ ops = 0
  /\ sessions = createSession(createSession(<<>>, 1, 0), 2, 0)
  /\ nextSessionId = 3
  /\ pc = "idle"
  /\ call = NoParams
  /\ createdSession = NoSession
  /\ startLinks = <<>>
  /\ stack = <<>>
  /\ visitedUrls = {}
  /\ result = NoResult
  /\ outcome = "none"
  /\ extractLog = <<>>
  /\ capLog = {}
  /\ lastFailed = NoUrl
  /\ outage = NoOutage
  /\ AuxIdle
  /\ ExtraIdle

NextVisit ==
  \/ \E id \in 0..2, parentUrl \in {NoUrl, UrlA},
        response \in {ReadablePage, NetworkError} :
       VisitUrl(id, UrlF, parentUrl, response)
  \/ AddBookmark(1, UrlB)
  \/ Tick(cacheTTL \div 2)

SpecVisit == InitVisit /\ [][NextVisit]_vars

\* C23: visitUrl(sessionId, url, parentUrl) on a session of the store whose
\* extraction succeeds appends the one entry (url, parentUrl) to the end
\* of the session's history, sets currentUrl to url and lastActivityTime
\* to the current time and leaves the earlier entries, the bookmarks and
\* every other session as they were; for an unknown session or a failed
\* extraction it raises an error and leaves history and currentUrl of
\* every session as they were.
C23_VisitUrlFrame ==
  [][StoreCall("visit") =>
       LET id == storeOp'.id
           extracted ==
             /\ lastCall'.key = generateCacheKey(storeOp'.url, "markdown")
             /\ lastCall'.at = now
             /\ lastCall'.ok
       IN /\ DOMAIN sessions' = DOMAIN sessions
          /\ \A j \in DOMAIN sessions : j # id => sessions'[j] = sessions[j]
          /\ storeOp'.ok = (id \in DOMAIN sessions /\ extracted)
          /\ IF storeOp'.ok
             THEN /\ sessions'[id].history =
                       Append(sessions[id].history,
                              [url |-> storeOp'.url,
                               parentUrl |-> storeOp'.parentUrl])
                  /\ sessions'[id].currentUrl = storeOp'.url
                  /\ sessions'[id].lastActivityTime = now
                  /\ sessions'[id].bookmarks = sessions[id].bookmarks
                  /\ sessions'[id].startTime = sessions[id].startTime
             ELSE \A j \in DOMAIN sessions :
                    /\ sessions'[j].history = sessions[j].history
                    /\ sessions'[j].currentUrl = sessions[j].currentUrl]_vars

\* visitUrl recorded a second page, with a parentUrl, in a session with a
\* bookmark that had been idle, while the store held another session
C23_Witness ==
  /\ storeOp.kind = "visit"
  /\ storeOp.ok
  /\ storeOp.idle > 0
  /\ storeOp.parentUrl # NoUrl
  /\ storeOp.id \in DOMAIN sessions
  /\ Len(sessions[storeOp.id].history) = 2
  /\ Len(sessions[storeOp.id].bookmarks) = 1
  /\ DOMAIN sessions # {storeOp.id}

\* visitUrl failed on a session with a page recorded: the extraction
\* found the cache entry expired and the network failed
C23_FailedVisit ==
  /\ storeOp.kind = "visit"
  /\ ~storeOp.ok
  /\ storeOp.found
  /\ storeOp.id \in DOMAIN sessions
  /\ Len(sessions[storeOp.id].history) = 1

(***************************************************************************)
(* Calls in flight: extractContent and visitUrl calls that begin while     *)
(* others await the network. A call runs from one await to the next in     *)
(* one turn of the event loop; the turns of different calls interleave.    *)
(***************************************************************************)
\* calls begun in a run
MaxCalls == 3

\* extractContent, lines 744-755, the part before the request: the call
\* throws ("failed"), returns the cached document ("hit") or awaits
\* axios.get ("axios")
beginExtract(cache, url, format, t) ==
  LET idx == CacheIndex(cache, generateCacheKey(url, format))
  IN IF ~isValidUrl(url) THEN [state |-> "failed", doc |-> NoDoc]
     ELSE IF idx # 0 /\ isCacheValid(cache[idx], t)
     THEN [state |-> "hit", doc |-> cache[idx].content]
     ELSE [state |-> "axios", doc |-> NoDoc]

\* extractContent, lines 772-871, the part after axios.get returned or
\* threw at time t: the document built and cached, or the error
resumeExtract(cache, url, format, t, response) ==
  LET content == MkDoc(url, format, t, contentStr(response))
  IN IF response.ok
     THEN [ok |-> TRUE, doc |-> content,
           cache |-> cacheContent(cache, url, format, content, t)]
     ELSE [ok |-> FALSE, doc |-> NoDoc, cache |-> cache]

\* the history write at the position the call saw when it began
recordVisit_Stale(sess, c) ==
  IF c.id \notin DOMAIN sess THEN sess
  ELSE [sess EXCEPT
          ![c.id].history =
            Append(SubSeq(@, 1, c.seen),
                   [url |-> c.url, parentUrl |-> c.parentUrl]),
          ![c.id].currentUrl = c.url]

\* visitUrl, lines 1104-1121, for the call c: session.history.push and
\* session.currentUrl = url, on the session object of the store
recordVisit(sess, c) ==
  IF c.id \notin DOMAIN sess THEN sess
  ELSE [sess EXCEPT
          ![c.id].history =
            Append(@, [url |-> c.url, parentUrl |-> c.parentUrl]),
          ![c.id].currentUrl = c.url]

\* the calls that await the network
InFlight == {k \in 1..Len(calls) : calls[k].state # "done"}

\* a call that begins now; seen is the length of its session's history
NewCall(op, url, format, id, parentUrl) ==
  [op |-> op, url |-> url, format |-> format, id |-> id,
   parentUrl |-> parentUrl, state |-> "axios", ok |-> FALSE,
   requests |-> 0, doc |-> NoDoc, inflight |-> InFlight, seq |-> 0,
   seen |-> IF id \in DOMAIN sessions THEN Len(sessions[id].history) ELSE 0]

\* call c ends now
Ended(c, ok, doc) ==
  [c EXCEPT !.state = "done", !.ok = ok, !.doc = doc,
            !.seq = Len(calls) - Cardinality(InFlight) + 1]

\* a caller, batchExtractContent for one, calls extractContent(url, format)
BeginExtract(url, format) ==
  /\ Len(calls) < MaxCalls
  /\ LET b == beginExtract(contentCache, url, format, now)
         c == NewCall("extract", url, format, NoSession, NoUrl)
     IN calls' =
          Append(calls,
                 IF b.state = "axios" THEN [c EXCEPT !.requests = 1]
                 ELSE Ended(c, b.state = "hit", b.doc))
  /\ UNCHANGED <<cacheVars, navVars, auxVars, limiterConfig, requestCounts,
                 windowTally, lastCheck>>

\* a caller calls visitUrl(id, url, parentUrl): getSession, then
\* extractEnhancedContent up to its first await
BeginVisit(id, url, parentUrl) ==
  /\ Len(calls) < MaxCalls
  /\ sessions' = getSession(sessions, id, now)
  /\ LET b == beginExtract(contentCache, url, "markdown", now)
         c == NewCall("visit", url, "markdown", id, parentUrl)
     IN calls' =
          Append(calls,
                 IF id \notin DOMAIN sessions \/ b.state = "failed"
                 THEN Ended(c, FALSE, NoDoc)
                 ELSE IF b.state = "hit"
                 THEN [c EXCEPT !.state = "fetch", !.doc = b.doc]
                 ELSE [c EXCEPT !.requests = 1])
  /\ UNCHANGED <<cacheVars, nextSessionId, pc, call, createdSession,
                 startLinks, stack, visitedUrls, result, outcome, extractLog,
                 capLog, lastFailed, outage, auxVars, limiterConfig,
                 requestCounts, windowTally, lastCheck>>

\* axios.get of call k returns or throws: extractContent goes on; a
\* visitUrl call whose extraction succeeded awaits the request of
\* enhanceContent next
AxiosReturns(k, response) ==
  /\ k \in 1..Len(calls)
  /\ calls[k].state = "axios"
  /\ LET r == resumeExtract(contentCache, calls[k].url, calls[k].format, now,
                            response)
     IN /\ contentCache' = r.cache
        /\ calls' =
             [calls EXCEPT
                ![k] = IF r.ok /\ calls[k].op = "visit"
                       THEN [@ EXCEPT !.state = "fetch", !.doc = r.doc]
                       ELSE Ended(@, r.ok, r.doc)]
  /\ UNCHANGED <<now, lastCall, prevCall, lastEvicted, ops, navVars, auxVars,
                 limiterConfig, requestCounts, windowTally, lastCheck>>

\* the request of enhanceContent for the visitUrl call k returns or
\* throws (enhanceContent catches it): visitUrl records the page
FetchReturns(k) ==
  /\ k \in 1..Len(calls)
  /\ calls[k].state = "fetch"
  /\ sessions' = recordVisit(sessions, calls[k])
  /\ calls' = [calls EXCEPT ![k] = Ended(@, TRUE, @.doc)]
  /\ UNCHANGED <<cacheVars, nextSessionId, pc, call, createdSession,
                 startLinks, stack, visitedUrls, result, outcome, extractLog,
                 capLog, lastFailed, outage, auxVars, limiterConfig,
                 requestCounts, windowTally, lastCheck>>

NextFlight ==
  \/ CreateSession
  \/ \E url \in {UrlA, BadUrl} : BeginExtract(url, "markdown")
  \/ \E id \in SessionIds, url \in {UrlA, UrlB} : BeginVisit(id, url, NoUrl)
  \/ \E k \in 1..MaxCalls, response \in {ReadablePage, NetworkError} :
       AxiosReturns(k, response)
  \/ \E k \in 1..MaxCalls : FetchReturns(k)

SpecFlight == Init /\ [][NextFlight]_vars

\* the visitUrl calls for session id that returned, and the extractContent
\* and visitUrl calls whose extraction returned a document
Visited(id) ==
  {k \in 1..Len(calls) :
     /\ calls[k].op = "visit"
     /\ calls[k].id = id
     /\ calls[k].state = "done"
     /\ calls[k].ok}

Extractions ==
  {k \in 1..Len(calls) :
     \/ calls[k].state = "done" /\ calls[k].ok
     \/ calls[k].state = "fetch"}

\* C22: no completed update is lost, with several calls in flight: the
\* cache holds an entry for the key of every extraction that returned a
\* document (the cache is never full here, so nothing is evicted), and
\* the history of a session consists of one entry for each visitUrl call
\* that returned, in the order the calls returned.
C22_NoLostUpdate ==
  /\ \A k \in Extractions :
       \/ CacheIndex(contentCache,
                     generateCacheKey(calls[k].url, calls[k].format)) # 0
       \/ Len(contentCache) >= MaxCacheEntries
  /\ \A id \in DOMAIN sessions :
       /\ Len(sessions[id].history) = Cardinality(Visited(id))
       /\ \A k \in Visited(id) :
            sessions[id].history[
              Cardinality({j \in Visited(id) : calls[j].seq <= calls[k].seq})]
              = [url |-> calls[k].url, parentUrl |-> calls[k].parentUrl]

\* two visitUrl calls for one session and different pages were in flight
\* together and returned in the reverse order of their beginning
C22_Witness ==
  \E i, j \in 1..Len(calls) :
    /\ i < j
    /\ calls[i].op = "visit" /\ calls[j].op = "visit"
    /\ calls[i].id = calls[j].id
    /\ calls[i].url # calls[j].url
    /\ i \in calls[j].inflight
    /\ calls[i].state = "done" /\ calls[i].ok
    /\ calls[j].state = "done" /\ calls[j].ok
    /\ calls[j].seq < calls[i].seq
    /\ calls[i].requests = 1 /\ calls[j].requests = 1

\* C26: of two extractContent calls for the same url and format that are
\* in flight together, beginning when the cache has no valid entry for the
\* key, only one issues a request, and both return the same document.
C26_OneFetchForConcurrentCalls ==
  \A i, j \in 1..Len(calls) :
    (/\ i < j
     /\ calls[i].op = "extract" /\ calls[j].op = "extract"
     /\ calls[i].url = calls[j].url /\ calls[i].format = calls[j].format
     /\ i \in calls[j].inflight
     /\ calls[i].state = "done" /\ calls[i].ok
     /\ calls[j].state = "done" /\ calls[j].ok)
    => /\ calls[i].requests + calls[j].requests = 1
       /\ calls[i].doc = calls[j].doc

====
